---- MODULE Spec2Model ----
(***************************************************************************)
(* Model of the pulse load-testing toolkit (delvisecheverria/pcr).         *)
(*                                                                         *)
(*  - the SSE broker of cmd/orchestrator/main.go (sseBroker, /api/events)  *)
(*    which is also the shape of broadcastLog and /api/logs of the serve   *)
(*    command;                                                             *)
(*  - the load engine runInternal (ramp-up, workers, results channel,      *)
(*    consumer, statistics), its caller's pump, and on their own its       *)
(*    outcome classification, percentile and scenario parsing;             *)
(*  - the recording proxy of pkg/recorder (Start, Stop, handleHTTP,        *)
(*    handleConnect, writeYAML), and on their own the session artifact,    *)
(*    concurrent Stop calls and the two transfers of a tunnel;             *)
(*  - the control surface of the serve command, the orchestrator's ingest  *)
(*    and one /api/events stream with its ticker.                          *)
(*                                                                         *)
(* Every goroutine is a process with a program counter; a channel is a     *)
(* sequence with a capacity; a mutex is a variable naming its holder.      *)
(***************************************************************************)
EXTENDS Integers, Sequences, FiniteSets, TLC

VARIABLES
    \* ---- SSE broker ----
    clients,     \* b.clients: the set of registered subscriber channels
    queue,       \* queue[s]: buffered content of subscriber s's channel
    chState,     \* chState[s]: "none" | "open" | "closed"
    pcS,         \* pcS[s]: position of the /api/events handler of s
    mu,          \* b.mu: "free" or "bcast" (held by a broadcast in progress)
    bcast,       \* the broadcast in progress: [msg, todo, done]
    published,   \* number of broadcasts that have acquired b.mu so far
    delivered,   \* delivered[s]: messages written to the sink of s, in order
    subAt,       \* subAt[s]: value of published when s was registered
    panicked,    \* TRUE once a send on a closed channel happened
    budget,      \* broadcasts the model may still start
    hadEmpty,    \* hadEmpty[s]: every offer made to s found its queue empty
    \* ---- load engine (runInternal) ----
    cfg,         \* parsed scenario and sink: [conc, dur, step, reqs, sink]
    now,         \* time.Since(start), in ticks
    pcW,         \* pcW[i]: position of worker i
    idx,         \* idx[i]: index in scenario.Requests of worker i's request
    t0,          \* t0[i]: the instant worker i called client.Do
    pend,        \* pend[i]: the result worker i is sending
    activeUsers, \* the atomic counter
    results,     \* the results channel
    resClosed,   \* close(results) has happened
    events,      \* the events sink (a buffered channel of the caller)
    stats,       \* stats: canonical name -> [count (of latencies), failures]
    pcMain,      \* "consume" | "returned"
    cur,         \* per worker: the value atomic.AddInt32 returned, until sent
    quota,       \* requests the workers of the model may still start
    ghost,       \* history of the run (see NoGhost)
    ret,         \* what runInternal printed and returned (see Summarize)
    caller,      \* the caller of RunWithEvents: "waiting" | "closed" | "pumped"
    \* ---- outcome classification, on its own ----
    clsIn,       \* what client.Do returned
    clsOut,      \* the result record built from it, or NoResult before
    \* ---- percentile, on its own ----
    pctL,        \* durations: the sorted latencies passed to percentile
    pctP,        \* p
    pctOut,      \* the value returned
    pctDone,     \* percentile has returned
    \* ---- scenario parsing (phase 1 of runInternal), on its own ----
    prsIn,       \* the file: [readable, yamlOk, scenarios, duration, rampUp]
    prsOut,      \* [done, err, duration, rampUp, launch]
    \* ---- recording proxy (Recorder) ----
    pcStart,     \* position of Recorder.Start
    rtimer,      \* seconds spent in the drain sleep / in server.Shutdown
    stopClosed,  \* r.stopCh is closed
    sig,         \* an OS interrupt was delivered to the stop channel
    hnd,         \* hnd[h]: [kind, pc] of proxy handler h
    reply,       \* reply[h]: what the client of h was sent, and whether
                 \* its connection was closed by the proxy
    records,     \* r.records
    recEvents,   \* r.Events (buffered content)
    evClosed,    \* close(r.Events) has happened
    tun,         \* some tunnel has copied bytes, in either direction
    snapshot,    \* writeYAML's copy of r.records
    artifact,    \* the requests list of the file written, if any
    files,       \* files created by writeYAML
    startRet,    \* what Start returned: "" (not yet) | "nil" | "error"
    rghost,      \* history: events offered / dropped per handler, a send on
                 \* the closed channel
    \* ---- the session artifact, on its own: writeYAML, then a replay ----
    wRecs,       \* the records writeYAML has copied
    wDoc,        \* the document it encoded, or NoDoc
    wRun,        \* what the engine made of the document, or NoRun
    \* ---- control surface of the serve command ----
    isRunning,   \* isRunning
    ctlRec,      \* rec: 0 (nil) or the recorder owned
    rcState,     \* rcState[r]: where recorder r and its goroutine are
    rcStop,      \* rcStop[r]: the stopCh of recorder r is closed
    pump,        \* pump[r]: the goroutine ranging over r.Events
    calls,       \* API calls handled so far
    lastReply,   \* [op, code] of the last API call handled
    crashed,     \* log.Fatalf ended the process
    \* ---- orchestrator: events on their way to the bus ----
    build,       \* which orchestrator source is running
    inQueue,     \* events still to arrive (report bodies / run events)
    handled,     \* events that have arrived, in order (see Arrived)
    bus,         \* the messages passed to broker.broadcast, in order
    \* ---- one /api/events stream, with its ticker and its sink ----
    stNow,       \* seconds since the handler created its ticker
    stTick,      \* ticker.C holds a tick
    stQueue,     \* ch: the subscriber's channel
    stSent,      \* messages broadcast so far
    stOut,       \* writes to the sink, in order: [kind, msg, at, ok]
    stPc,        \* "streaming" | "ended"
    stNotify,    \* the close-notify channel of the request has fired
    stSinkOk,    \* the sink accepts writes
    stSub,       \* ch is in broker.clients
    stClosed,    \* close(ch) has happened
    \* ---- Recorder.Stop called by several goroutines ----
    stopCh,      \* r.stopCh: "open" | "closed"
    stopPc,      \* stopPc[c]: "idle" | "default", caller c's place in Stop
    stopN,       \* stopN[c]: Stop calls of caller c that have returned
    stopCloses,  \* close(r.stopCh) calls executed so far
    stopPanic,   \* a close of the closed channel has happened
    startPos,    \* Start: "new" (not called) | "select" | "woken"
    \* ---- one established CONNECT tunnel ----
    tConn,       \* tConn[s]: "open" | "closed", the proxy's end of socket s
    tPeer,       \* tPeer[s]: "live" | "gone", the remote end (EOF or error)
    tPc,         \* tPc[d]: "copy" | "ret" | "half" | "done", transfer d
    tMoved       \* tMoved[d]: bytes transfer d has copied

bvars == <<clients, queue, chState, pcS, mu, bcast, published, delivered,
           subAt, panicked, budget, hadEmpty>>

evars == <<cfg, now, pcW, idx, t0, pend, activeUsers, results, resClosed,
           events, stats, pcMain, cur, quota, ghost, ret, caller>>

cvars == <<clsIn, clsOut>>

pvars == <<pctL, pctP, pctOut, pctDone>>

avars == <<prsIn, prsOut>>

rvars == <<pcStart, rtimer, stopClosed, sig, hnd, reply, records,
           recEvents, evClosed, tun, snapshot, artifact, files, startRet,
           rghost>>

wvars == <<wRecs, wDoc, wRun>>

kvars == <<isRunning, ctlRec, rcState, rcStop, pump, calls, lastReply,
           crashed>>

gvars == <<build, inQueue, handled, bus>>

svars == <<stNow, stTick, stQueue, stSent, stOut, stPc, stNotify, stSinkOk,
           stSub, stClosed>>

hvars == <<stopCh, stopPc, stopN, stopCloses, stopPanic, startPos>>

tvars == <<tConn, tPeer, tPc, tMoved>>

vars == <<bvars, evars, cvars, pvars, avars, rvars, wvars, kvars, gvars,
          svars, hvars, tvars>>

\* what a step of one component leaves alone
notBroker == <<evars, cvars, pvars, avars, rvars, wvars, kvars,
               gvars, svars, hvars, tvars>>
notEngine == <<bvars, cvars, pvars, avars, rvars, wvars, kvars,
               gvars, svars, hvars, tvars>>
notClassify == <<bvars, evars, pvars, avars, rvars, wvars, kvars,
                 gvars, svars, hvars, tvars>>
notPercentile == <<bvars, evars, cvars, avars, rvars, wvars, kvars,
                   gvars, svars, hvars, tvars>>
notParse == <<bvars, evars, cvars, pvars, rvars, wvars, kvars,
              gvars, svars, hvars, tvars>>
notRecorder == <<bvars, evars, cvars, pvars, avars, wvars, kvars,
                 gvars, svars, hvars, tvars>>
notArtifact == <<bvars, evars, cvars, pvars, avars, rvars, kvars,
                 gvars, svars, hvars, tvars>>
notControl == <<bvars, evars, cvars, pvars, avars, rvars, wvars,
                gvars, svars, hvars, tvars>>
notIngest == <<bvars, evars, cvars, pvars, avars, rvars, wvars,
               kvars, svars, hvars, tvars>>
notStream == <<bvars, evars, cvars, pvars, avars, rvars, wvars,
               kvars, gvars, hvars, tvars>>
notStop == <<bvars, evars, cvars, pvars, avars, rvars, wvars,
             kvars, gvars, svars, tvars>>
notTunnel == <<bvars, evars, cvars, pvars, avars, rvars, wvars,
               kvars, gvars, svars, hvars>>

(***************************************************************************)
(* Bounds and program constants                                            *)
(***************************************************************************)
QueueCap == 10          \* make(chan []byte, 10)
MaxLen == 3             \* latencies in a list passed to percentile
MaxLat == 3             \* a latency is 1..MaxLat ticks
NHandlers == 2          \* requests reaching the proxy in a session
RecEventsCap == 1       \* make(chan RecordedEvent, 100), scaled down
MaxRecs == 2            \* records in a capture list given to writeYAML
MaxRecorders == 2       \* recorders constructed during a run of the model
HeartbeatPeriod == 10   \* time.NewTicker(10 * time.Second)
MaxClock == 11          \* seconds of a stream the model follows
NStoppers == 3          \* goroutines that call Stop in the model
MaxStopCalls == 2       \* Stop calls each of them makes, one after another
MaxTunnelBytes == 2     \* bytes a transfer of the model copies
MaxMsgs == 2            \* messages broadcast to the stream of the model
MaxEvents == 2          \* events arriving during a run of the model
MaxCalls == 4           \* API calls handled during a run of the model
DrainWindow == 2        \* time.Sleep(2 * time.Second)
ShutdownDeadline == 5   \* context.WithTimeout(..., 5*time.Second)
NSubs == 2              \* subscriber handlers in the model
MaxPublish == 2         \* broadcasts started during a run of the model
MaxConc == 2            \* profile.Concurrency is at most this
MaxDur == 1             \* profile.Duration is at most this many ticks
MaxIssued == 2          \* requests started in a run of the model
MaxReqs == MaxIssued    \* a longer scenario would never start a pass
ResultsCap == 1         \* make(chan result, 10000), scaled down
EventsCap == 1          \* make(chan engine.Event, 100), scaled down

Subs == 1..NSubs
\* A run of the model starts either from the fresh broker or from a broker
\* that has already broadcast Backlog messages to the subscribers of its
\* first moment, each of which has either written all of them to its sink
\* or none of them yet. Subscribers are interchangeable, so the ones that
\* have written none are the lowest-numbered, and there are at most two.
Backlog == QueueCap - 1
Range(a, b) == [i \in 1..(b - a + 1) |-> a + i - 1]
NoBcast == [msg |-> 0, todo |-> {}, done |-> {}]

(***************************************************************************)
(* Broker                                                                  *)
(***************************************************************************)
InitBroker ==
    /\ published \in {0, Backlog}
    /\ clients \in {1..k : k \in 0..NSubs}
    /\ \E r \in [Subs -> {0, published}] :
          /\ Cardinality({s \in clients : r[s] # published}) <= 2
          /\ \A s, t \in clients : (t < s /\ r[s] # published) => r[t] # published
          /\ delivered = [s \in Subs |->
                           IF s \in clients THEN Range(1, r[s]) ELSE <<>>]
          /\ queue = [s \in Subs |->
                       IF s \in clients THEN Range(r[s] + 1, published)
                       ELSE <<>>]
          /\ hadEmpty = [s \in Subs |-> s \in clients => r[s] = published]
    /\ chState = [s \in Subs |-> IF s \in clients THEN "open" ELSE "none"]
    /\ pcS = [s \in Subs |-> IF s \in clients THEN "streaming" ELSE "idle"]
    /\ mu = "free"
    /\ bcast = NoBcast
    /\ subAt = [s \in Subs |-> 0]
    /\ panicked = FALSE
    /\ budget = MaxPublish

\* select { case ch <- msg: default: } on an open channel of capacity QueueCap
TrySendUnbounded(q, msg) == Append(q, msg)
TrySendDropOldest(q, msg) ==    \* room made by dropping the oldest
    IF Len(q) < QueueCap THEN Append(q, msg) ELSE Append(Tail(q), msg)
TrySend(q, msg) == IF Len(q) < QueueCap THEN Append(q, msg) ELSE q

\* ch := make(chan []byte, 10); broker.addClient(ch)
AddClient(s) ==
    /\ pcS[s] = "idle"
    /\ \A t \in 1..(s - 1) : pcS[t] # "idle"
    /\ mu = "free"
    /\ chState' = [chState EXCEPT ![s] = "open"]
    /\ clients' = clients \cup {s}
    /\ pcS' = [pcS EXCEPT ![s] = "streaming"]
    /\ subAt' = [subAt EXCEPT ![s] = published]
    /\ UNCHANGED notBroker
    /\ UNCHANGED <<queue, mu, bcast, published, delivered, panicked, budget,
                   hadEmpty>>

\* case msg := <-ch: fmt.Fprintf(w, "data: %s\n\n", msg); flusher.Flush()
StreamReadNewest(s) ==
    /\ pcS[s] = "streaming"
    /\ queue[s] # <<>>
    /\ delivered' = [delivered EXCEPT ![s] = Append(@, queue[s][Len(queue[s])])]
    /\ queue' = [queue EXCEPT ![s] = SubSeq(@, 1, Len(@) - 1)]
    /\ UNCHANGED notBroker
    /\ UNCHANGED <<clients, chState, pcS, mu, bcast, published, subAt,
                   panicked, budget, hadEmpty>>
StreamRead(s) ==
    /\ pcS[s] = "streaming"
    /\ queue[s] # <<>>
    /\ delivered' = [delivered EXCEPT ![s] = Append(@, Head(queue[s]))]
    /\ queue' = [queue EXCEPT ![s] = Tail(@)]
    /\ UNCHANGED notBroker
    /\ UNCHANGED <<clients, chState, pcS, mu, bcast, published, subAt,
                   panicked, budget, hadEmpty>>

\* case <-notify: return; the deferred removeClient runs:
\* b.mu.Lock(); delete(b.clients, ch); b.mu.Unlock()
\* (a handler waiting for b.mu is a handler that has not yet returned)
RemoveClientCloseFirst(s) ==    \* close(ch) before the delete
    /\ pcS[s] = "streaming"
    /\ chState' = [chState EXCEPT ![s] = "closed"]
    /\ pcS' = [pcS EXCEPT ![s] = "closing"]
    /\ UNCHANGED notBroker
    /\ UNCHANGED <<clients, queue, mu, bcast, published, delivered, subAt,
                   panicked, budget, hadEmpty>>
RemoveClient(s) ==
    /\ pcS[s] = "streaming"
    /\ mu = "free"
    /\ clients' = clients \ {s}
    /\ pcS' = [pcS EXCEPT ![s] = "closing"]
    /\ UNCHANGED notBroker
    /\ UNCHANGED <<queue, chState, mu, bcast, published, delivered, subAt,
                   panicked, budget, hadEmpty>>

\* removeClient: close(ch); the handler returns.  Nothing refers to the
\* channel or to the finished response any more: their content is released.
CloseCh(s) ==
    /\ pcS[s] = "closing"
    /\ chState' = [chState EXCEPT ![s] = "closed"]
    /\ pcS' = [pcS EXCEPT ![s] = "gone"]
    /\ queue' = [queue EXCEPT ![s] = <<>>]
    /\ delivered' = [delivered EXCEPT ![s] = <<>>]
    /\ subAt' = [subAt EXCEPT ![s] = 0]
    /\ hadEmpty' = [hadEmpty EXCEPT ![s] = TRUE]
    /\ UNCHANGED notBroker
    /\ UNCHANGED <<clients, mu, bcast, published, panicked, budget>>

\* broadcast: b.mu.Lock(); the range over b.clients starts
BroadcastLock ==
    /\ mu = "free"
    /\ budget > 0
    /\ budget' = budget - 1
    /\ mu' = "bcast"
    /\ published' = published + 1
    /\ bcast' = [msg |-> published + 1, todo |-> clients, done |-> {}]
    /\ UNCHANGED notBroker
    /\ UNCHANGED <<clients, queue, chState, pcS, delivered, subAt, panicked,
                   hadEmpty>>

\* one iteration of  for ch := range b.clients { select {...} }
\* (Go iterates a map in an unspecified order)
BroadcastOfferBlocking(s) ==       \* a plain  ch <- msg
    /\ mu = "bcast"
    /\ s \in bcast.todo
    /\ chState[s] = "open"
    /\ Len(queue[s]) < QueueCap
    /\ queue' = [queue EXCEPT ![s] = Append(@, bcast.msg)]
    /\ bcast' = [bcast EXCEPT !.todo = @ \ {s}, !.done = @ \cup {s}]
    /\ hadEmpty' = [hadEmpty EXCEPT ![s] = @ /\ queue[s] = <<>>]
    /\ UNCHANGED notBroker
    /\ UNCHANGED <<clients, chState, pcS, mu, published, delivered, subAt,
                   budget, panicked>>
BroadcastOfferBreak(s) ==          \* leaves the range at the first full queue
    /\ mu = "bcast"
    /\ s \in bcast.todo
    /\ chState[s] = "open"
    /\ queue' = [queue EXCEPT ![s] = TrySend(@, bcast.msg)]
    /\ bcast' = IF Len(queue[s]) < QueueCap
                THEN [bcast EXCEPT !.todo = @ \ {s}, !.done = @ \cup {s}]
                ELSE [bcast EXCEPT !.todo = {}, !.done = @ \cup {s}]
    /\ hadEmpty' = [hadEmpty EXCEPT ![s] = @ /\ queue[s] = <<>>]
    /\ UNCHANGED notBroker
    /\ UNCHANGED <<clients, chState, pcS, mu, published, delivered, subAt,
                   budget, panicked>>
BroadcastOffer(s) ==
    /\ mu = "bcast"
    /\ s \in bcast.todo
    /\ IF chState[s] = "open"
       THEN /\ queue' = [queue EXCEPT ![s] = TrySend(@, bcast.msg)]
            /\ UNCHANGED panicked
       ELSE /\ panicked' = TRUE      \* send on closed channel
            /\ UNCHANGED queue
    /\ bcast' = [bcast EXCEPT !.todo = @ \ {s}, !.done = @ \cup {s}]
    /\ hadEmpty' = [hadEmpty EXCEPT ![s] = @ /\ queue[s] = <<>>]
    /\ UNCHANGED notBroker
    /\ UNCHANGED <<clients, chState, pcS, mu, published, delivered, subAt,
                   budget>>

\* broadcast: the range is over; b.mu.Unlock()
BroadcastUnlock ==
    /\ mu = "bcast"
    /\ bcast.todo = {}
    /\ mu' = "free"
    /\ bcast' = NoBcast
    /\ UNCHANGED notBroker
    /\ UNCHANGED <<clients, queue, chState, pcS, published, delivered, subAt,
                   panicked, budget, hadEmpty>>

BroadcastStep == (\E s \in Subs : BroadcastOffer(s)) \/ BroadcastUnlock

NextBroker ==
    \/ \E s \in Subs : AddClient(s)
    \/ \E s \in Subs : StreamRead(s)
    \/ \E s \in Subs : RemoveClient(s)
    \/ \E s \in Subs : CloseCh(s)
    \/ BroadcastLock
    \/ \E s \in Subs : BroadcastOffer(s)
    \/ BroadcastUnlock


(***************************************************************************)
(* Load engine: runInternal                                                *)
(***************************************************************************)
Workers == 1..MaxConc
\* the clock of the model stops once every ramp sleep and the duration are over
MaxTime == IF MaxDur + 1 > MaxConc THEN MaxDur + 1 ELSE MaxConc
EngineCodes == {200, 404}          \* statuses the stub upstream answers with

\* fmt.Sprintf("%s %s", reqCfg.Method, reqCfg.Path)
CanonName(method, path) == <<method, path>>

\* The scenarios of the model: n requests, request j is GET /a (j odd) or
\* GET /b (j even); request badAt, if any, has a method http.NewRequest
\* rejects.
ReqAt(j, badAt) ==
    [method |-> IF j = badAt THEN "G T" ELSE "GET",
     path   |-> IF j % 2 = 1 THEN "/a" ELSE "/b",
     bad    |-> j = badAt]
Scenarios ==
    {[j \in 1..n |-> ReqAt(j, b)] : n \in 0..MaxReqs, b \in 0..MaxReqs}

\* step = rampUp / concurrency when both are positive, else 0
RampStep(rampUp, conc) ==
    IF rampUp > 0 /\ conc > 0 THEN rampUp \div conc ELSE 0

\* A result record.  The latency field is left out of the model: no branch
\* of runInternal reads it, and stats[name].latencies is kept as its length.
NoResult == [name |-> <<>>, status |-> 0, err |-> <<>>, resp |-> FALSE]
Bump(f, k) ==
    IF k \in DOMAIN f THEN [f EXCEPT ![k] = @ + 1]
    ELSE [x \in DOMAIN f \cup {k} |-> IF x = k THEN 1 ELSE f[x]]

\* nothing printed or returned yet
NoSummary == [out |-> "", rows |-> {}, total |-> 0, fails |-> 0, err |-> ""]

\* History of a run: results made by the workers (per name), consumed
\* results with an error (per name), events built with a non-empty Err (per
\* name), whether an event was dropped, whether a worker waited on the
\* full results channel.
NoGhost == [made |-> <<>>, resErr |-> <<>>, evErr |-> <<>>, dropped |-> FALSE,
            blocked |-> FALSE]

\* The three outcomes of an issued request (client.Do returned):
\* a transport error, a response with status >= 400, any other response.
\* resp is history: whether a response was received.
ClassifyStrict(o, name) ==
    IF o.kind = "transport"
    THEN [name |-> name, status |-> 0, err |-> <<"transport">>,
          resp |-> FALSE]
    ELSE IF o.code > 400
    THEN [name |-> name, status |-> o.code,
          err |-> <<"status", o.code>>, resp |-> TRUE]
    ELSE [name |-> name, status |-> o.code, err |-> <<>>,
          resp |-> TRUE]
Classify(o, name) ==
    IF o.kind = "transport"
    THEN [name |-> name, status |-> 0, err |-> <<"transport">>,
          resp |-> FALSE]
    ELSE IF o.code >= 400
    THEN [name |-> name, status |-> o.code,
          err |-> <<"status", o.code>>, resp |-> TRUE]
    ELSE [name |-> name, status |-> o.code, err |-> <<>>,
          resp |-> TRUE]

\* http.NewRequest failed: result{name, method, path, status: 0, err: err}
ConstructFailure(name) ==
    [name |-> name, status |-> 0, err |-> <<"newrequest">>, resp |-> FALSE]

EngineOutcomes ==
    {[kind |-> "transport", code |-> 0]}
        \cup {[kind |-> "resp", code |-> c] : c \in EngineCodes}

\* The state after the scenario is parsed, start := time.Now() is taken and
\* the launch loop has started one goroutine per worker index.
InitEngine ==
    /\ \E c \in 0..MaxConc, d \in 0..MaxDur, ru \in {0, MaxConc},
          rq \in Scenarios, sk \in {"nil", "read", "unread"} :
          /\ cfg = [conc |-> c, dur |-> d, step |-> RampStep(ru, c),
                    reqs |-> rq, sink |-> sk]
          /\ pcW = [i \in Workers |-> IF i <= c THEN "sleep" ELSE "off"]
    /\ now = 0
    /\ idx = [i \in Workers |-> 0]
    /\ t0 = [i \in Workers |-> 0]
    /\ pend = [i \in Workers |-> NoResult]
    /\ activeUsers = 0
    /\ results = <<>>
    /\ resClosed = FALSE
    /\ events = <<>>
    /\ stats = <<>>
    /\ pcMain = "consume"
    /\ cur = [i \in Workers |-> 0]
    /\ quota = MaxIssued
    /\ ret = NoSummary
    /\ ghost = NoGhost
    /\ caller = "waiting"

\* the wall clock advances
Tick ==
    /\ now < MaxTime
    /\ now' = now + 1
    /\ UNCHANGED <<notEngine, cur, ret, caller>>
    /\ UNCHANGED <<cfg, pcW, idx, t0, pend, activeUsers, results, resClosed,
                   events, stats, pcMain, quota, ghost>>

\* time.Sleep(step * workerIdx) is over; cur := atomic.AddInt32(&activeUsers, 1)
\* (cur is used for the RAMP_PROGRESS event only)
WorkerStartStore(i) ==     \* atomic.StoreInt32(&activeUsers, workerIdx+1)
    /\ pcW[i] = "sleep"
    /\ now >= cfg.step * (i - 1)
    /\ activeUsers' = i
    /\ cur' = [cur EXCEPT ![i] = IF cfg.sink = "nil" THEN 0 ELSE i]
    /\ pcW' = [pcW EXCEPT ![i] = IF cfg.sink = "nil" THEN "top" ELSE "ramp"]
    /\ UNCHANGED <<notEngine, ret, caller>>
    /\ UNCHANGED <<cfg, now, idx, t0, pend, results, resClosed, events, stats,
                   pcMain, quota, ghost>>
WorkerStart(i) ==
    /\ pcW[i] = "sleep"
    /\ now >= cfg.step * (i - 1)
    /\ activeUsers' = activeUsers + 1
    /\ cur' = [cur EXCEPT ![i] = IF cfg.sink = "nil" THEN 0
                                 ELSE activeUsers + 1]
    /\ pcW' = [pcW EXCEPT ![i] = IF cfg.sink = "nil" THEN "top" ELSE "ramp"]
    /\ UNCHANGED <<notEngine, ret, caller>>
    /\ UNCHANGED <<cfg, now, idx, t0, pend, results, resClosed, events, stats,
                   pcMain, quota, ghost>>

\* The sink is the caller's buffered channel.  "read": the caller's goroutine
\* ranging over it keeps it drained, a send always finds room and the event
\* is gone from the buffer at once.  "unread": that goroutine has stopped
\* reading (or there is none), the buffer only fills.  "nil": Run, no sink.
SinkFull == cfg.sink = "unread" /\ Len(events) >= EventsCap
SinkPut(ev) == IF cfg.sink = "unread" THEN Append(events, ev) ELSE events

RampEvent(i, c) ==
    [name |-> "RAMP_PROGRESS", method |-> "SYSTEM", path |-> i, status |-> 0,
     err |-> <<>>, conc |-> c, resp |-> FALSE]

\* events <- Event{Name: "RAMP_PROGRESS", ...}: a plain send, which waits
\* while the sink is full
WorkerRamp(i) ==
    /\ pcW[i] = "ramp"
    /\ ~SinkFull
    /\ events' = SinkPut(RampEvent(i, cur[i]))
    /\ cur' = [cur EXCEPT ![i] = 0]
    /\ pcW' = [pcW EXCEPT ![i] = "top"]
    /\ UNCHANGED <<notEngine, ret, caller>>
    /\ UNCHANGED <<cfg, now, idx, t0, pend, activeUsers, results, resClosed,
                   stats,
                   pcMain, quota, ghost>>

\* The worker goes on to scenario.Requests[j]: past the last one it is back
\* at the loop condition; a request NewRequest rejects gives the
\* construction-failure result to send; otherwise t0 := time.Now() and
\* client.Do(req) is called.
Issue(i, j) ==
    IF j > Len(cfg.reqs)
    THEN /\ pcW' = [pcW EXCEPT ![i] = "top"]
         /\ idx' = [idx EXCEPT ![i] = 0]
         /\ pend' = [pend EXCEPT ![i] = NoResult]
         /\ UNCHANGED <<t0, ghost>>
    ELSE LET rq == cfg.reqs[j] IN
         IF rq.bad
         THEN /\ pcW' = [pcW EXCEPT ![i] = "send"]
              /\ idx' = [idx EXCEPT ![i] = j]
              /\ pend' = [pend EXCEPT ![i] =
                             ConstructFailure(CanonName(rq.method, rq.path))]
              /\ ghost' = [ghost EXCEPT
                              !.made = Bump(@, CanonName(rq.method, rq.path))]
              /\ UNCHANGED t0
         ELSE /\ pcW' = [pcW EXCEPT ![i] = "do"]
              /\ idx' = [idx EXCEPT ![i] = j]
              /\ t0' = [t0 EXCEPT ![i] = now]
              /\ pend' = [pend EXCEPT ![i] = NoResult]
              /\ UNCHANGED ghost

\* for time.Since(start) < duration { for _, reqCfg := range scenario.Requests
\* The condition is evaluated; when it holds the pass starts with the first
\* request, otherwise the worker returns (wg.Done).  A pass starts only
\* while the model's quota covers its requests; a worker that finds it
\* used up is a slow worker, which gets to the loop again when the duration
\* is over.  With no request in the scenario the loop spins until then.
WorkerLoopInclusive(i) ==      \* time.Since(start) <= duration
    /\ pcW[i] = "top"
    /\ IF now <= cfg.dur
       THEN /\ Len(cfg.reqs) > 0
            /\ quota >= Len(cfg.reqs)
            /\ quota' = quota - Len(cfg.reqs)
            /\ Issue(i, 1)
       ELSE /\ pcW' = [pcW EXCEPT ![i] = "done"]
            /\ UNCHANGED <<idx, t0, pend, quota, ghost>>
    /\ UNCHANGED <<notEngine, cur, ret, caller>>
    /\ UNCHANGED <<cfg, now, activeUsers, results, resClosed, events, stats,
                   pcMain>>
WorkerLoop(i) ==
    /\ pcW[i] = "top"
    /\ IF now < cfg.dur
       THEN /\ Len(cfg.reqs) > 0
            /\ quota >= Len(cfg.reqs)
            /\ quota' = quota - Len(cfg.reqs)
            /\ Issue(i, 1)
       ELSE /\ pcW' = [pcW EXCEPT ![i] = "done"]
            /\ UNCHANGED <<idx, t0, pend, quota, ghost>>
    /\ UNCHANGED <<notEngine, cur, ret, caller>>
    /\ UNCHANGED <<cfg, now, activeUsers, results, resClosed, events, stats,
                   pcMain>>

\* resp, err := client.Do(req) returns; latency := time.Since(t0); the body
\* is drained; the outcome is classified into the result to send
WorkerDone(i) ==
    /\ pcW[i] = "do"
    /\ \E o \in EngineOutcomes :
          pend' = [pend EXCEPT ![i] =
                      Classify(o, CanonName(cfg.reqs[idx[i]].method,
                                            cfg.reqs[idx[i]].path))]
    /\ t0' = [t0 EXCEPT ![i] = 0]
    /\ pcW' = [pcW EXCEPT ![i] = "send"]
    /\ ghost' = [ghost EXCEPT
                    !.made = Bump(@, CanonName(cfg.reqs[idx[i]].method,
                                               cfg.reqs[idx[i]].path))]
    /\ UNCHANGED <<notEngine, cur, ret, caller>>
    /\ UNCHANGED <<cfg, now, idx, activeUsers, results, resClosed, events,
                   stats, pcMain, quota>>

\* results <- result{...}: a plain send, which waits while the channel is
\* full; then the range goes on to the next request
WorkerSendAbort(i) ==      \* the worker returns after sending a failure
    /\ pcW[i] = "send"
    /\ Len(results) < ResultsCap
    /\ ~resClosed
    /\ results' = Append(results, pend[i])
    /\ IF pend[i].err # <<>>
       THEN /\ pcW' = [pcW EXCEPT ![i] = "done"]
            /\ pend' = [pend EXCEPT ![i] = NoResult]
            /\ UNCHANGED <<idx, t0, ghost>>
       ELSE Issue(i, idx[i] + 1)
    /\ UNCHANGED <<notEngine, cur, ret, caller>>
    /\ UNCHANGED <<cfg, now, activeUsers, resClosed, events, stats, pcMain,
                   quota>>
WorkerSend(i) ==
    /\ pcW[i] = "send"
    /\ Len(results) < ResultsCap
    /\ ~resClosed
    /\ results' = Append(results, pend[i])
    /\ Issue(i, idx[i] + 1)
    /\ UNCHANGED <<notEngine, cur, ret, caller>>
    /\ UNCHANGED <<cfg, now, activeUsers, resClosed, events, stats, pcMain,
                   quota>>

\* go func() { wg.Wait(); close(results) }()
SentinelEarly ==           \* close(results) without wg.Wait()
    /\ ~resClosed
    /\ resClosed' = TRUE
    /\ UNCHANGED <<notEngine, cur, ret, caller>>
    /\ UNCHANGED <<cfg, now, pcW, idx, t0, pend, activeUsers, results, events,
                   stats, pcMain, quota, ghost>>
Sentinel ==
    /\ ~resClosed
    /\ \A i \in Workers : pcW[i] \in {"off", "done"}
    /\ resClosed' = TRUE
    /\ UNCHANGED <<notEngine, cur, ret, caller>>
    /\ UNCHANGED <<cfg, now, pcW, idx, t0, pend, activeUsers, results, events,
                   stats, pcMain, quota, ghost>>

\* stats[r.name]: created on first use; the latency appended; failures
\* counted when r.err != nil
AddStatByStatus(st, r) ==
    LET old == IF r.name \in DOMAIN st THEN st[r.name]
               ELSE [count |-> 0, failures |-> 0]
        new == [count |-> old.count + 1,
                failures |-> old.failures + (IF r.status >= 400 THEN 1 ELSE 0)]
    IN [x \in DOMAIN st \cup {r.name} |-> IF x = r.name THEN new ELSE st[x]]
AddStat(st, r) ==
    LET old == IF r.name \in DOMAIN st THEN st[r.name]
               ELSE [count |-> 0, failures |-> 0]
        new == [count |-> old.count + 1,
                failures |-> old.failures + (IF r.err # <<>> THEN 1 ELSE 0)]
    IN [x \in DOMAIN st \cup {r.name} |-> IF x = r.name THEN new ELSE st[x]]

\* ev := Event{Name: r.name, ..., Status: r.status, Concurrency: curConc};
\* if r.err != nil { ev.Err = r.err.Error() }
ResultEvent(r, curConc) ==
    [name |-> r.name, method |-> r.name[1], path |-> r.name[2],
     status |-> r.status, err |-> r.err,
     conc |-> curConc, resp |-> r.resp]

\* one iteration of  for r := range results : the event is offered to the
\* sink without waiting (dropped when the sink is full), then the statistics
\* are updated
ConsumeDropStat ==         \* the statistics skipped when the event is dropped
    /\ pcMain = "consume"
    /\ results # <<>>
    /\ LET r == Head(results)
           ev == ResultEvent(r, activeUsers)
           full == SinkFull
       IN /\ results' = Tail(results)
          /\ events' = IF cfg.sink = "nil" \/ full THEN events
                        ELSE SinkPut(ev)
          /\ ghost' = [ghost EXCEPT
                !.dropped = @ \/ (cfg.sink # "nil" /\ full),
                !.blocked = @ \/ (Len(results) >= ResultsCap
                                    /\ \E i \in Workers : pcW[i] = "send"),
                !.resErr = IF r.err # <<>> THEN Bump(@, r.name) ELSE @,
                !.evErr = IF cfg.sink # "nil" /\ ev.err # <<>>
                          THEN Bump(@, r.name) ELSE @]
          /\ stats' = IF cfg.sink # "nil" /\ full THEN stats
                      ELSE AddStat(stats, r)
    /\ UNCHANGED <<notEngine, cur, ret, caller>>
    /\ UNCHANGED <<cfg, now, pcW, idx, t0, pend, activeUsers, resClosed,
                   pcMain, quota>>
Consume ==
    /\ pcMain = "consume"
    /\ results # <<>>
    /\ LET r == Head(results)
           ev == ResultEvent(r, activeUsers)
           full == SinkFull
       IN /\ results' = Tail(results)
          /\ events' = IF cfg.sink = "nil" \/ full THEN events
                        ELSE SinkPut(ev)
          /\ ghost' = [ghost EXCEPT
                !.dropped = @ \/ (cfg.sink # "nil" /\ full),
                !.blocked = @ \/ (Len(results) >= ResultsCap
                                    /\ \E i \in Workers : pcW[i] = "send"),
                !.resErr = IF r.err # <<>> THEN Bump(@, r.name) ELSE @,
                !.evErr = IF cfg.sink # "nil" /\ ev.err # <<>>
                          THEN Bump(@, r.name) ELSE @]
          /\ stats' = AddStat(stats, r)
    /\ UNCHANGED <<notEngine, cur, ret, caller>>
    /\ UNCHANGED <<cfg, now, pcW, idx, t0, pend, activeUsers, resClosed,
                   pcMain, quota>>

\* summarize: "No requests executed." for an empty map; otherwise one row
\* per name with a latency, the totals, and nil in both cases.  (The
\* averages and percentiles printed are functions of the latencies, which
\* the model does not carry.)
RECURSIVE Total(_, _, _)
Total(st, S, f) ==
    IF S = {} THEN 0
    ELSE LET x == CHOOSE y \in S : TRUE IN st[x][f] + Total(st, S \ {x}, f)
Summarize(st) ==
    IF DOMAIN st = {}
    THEN [out |-> "No requests executed.", rows |-> {}, total |-> 0,
          fails |-> 0, err |-> "nil"]
    ELSE LET shown == {n \in DOMAIN st : st[n].count > 0}
         IN [out |-> "metrics",
             rows |-> {[name |-> n, count |-> st[n].count,
                        fails |-> st[n].failures] : n \in shown},
             total |-> Total(st, shown, "count"),
             fails |-> Total(st, shown, "failures"),
             err |-> "nil"]

\* the range over results ends (closed and drained): return summarize(stats)
MainReturnEarly ==         \* returns as soon as the channel is empty
    /\ pcMain = "consume"
    /\ results = <<>>
    /\ pcMain' = "returned"
    /\ ret' = Summarize(stats)
    /\ UNCHANGED <<notEngine, cur, caller>>
    /\ UNCHANGED <<cfg, now, pcW, idx, t0, pend, activeUsers, results,
                   resClosed, events, stats, quota, ghost>>
MainReturn ==
    /\ pcMain = "consume"
    /\ results = <<>>
    /\ resClosed
    /\ pcMain' = "returned"
    /\ ret' = Summarize(stats)
    /\ UNCHANGED <<notEngine, cur, caller>>
    /\ UNCHANGED <<cfg, now, pcW, idx, t0, pend, activeUsers, results,
                   resClosed, events, stats, quota, ghost>>

\* the caller, after RunWithEvents has returned: close(events)
CallerClose ==
    /\ pcMain = "returned"
    /\ cfg.sink # "nil"
    /\ caller = "waiting"
    /\ caller' = "closed"
    /\ UNCHANGED <<notEngine, cur, ret>>
    /\ UNCHANGED <<cfg, now, pcW, idx, t0, pend, activeUsers, results,
                   resClosed, events, stats, pcMain, quota, ghost>>

\* the caller's pump,  for ev := range events , on the closed sink: it
\* takes what the buffer still holds
PumpDrain ==
    /\ caller = "closed"
    /\ events # <<>>
    /\ events' = Tail(events)
    /\ UNCHANGED <<notEngine, cur, ret, caller>>
    /\ UNCHANGED <<cfg, now, pcW, idx, t0, pend, activeUsers, results,
                   resClosed, stats, pcMain, quota, ghost>>

\* the range over the closed and empty sink ends
PumpExit ==
    /\ caller = "closed"
    /\ events = <<>>
    /\ caller' = "pumped"
    /\ UNCHANGED <<notEngine, cur, ret>>
    /\ UNCHANGED <<cfg, now, pcW, idx, t0, pend, activeUsers, results,
                   resClosed, events, stats, pcMain, quota, ghost>>

NextEngine ==
    \/ Tick
    \/ \E i \in Workers : WorkerStart(i)
    \/ \E i \in Workers : WorkerRamp(i)
    \/ \E i \in Workers : WorkerLoop(i)
    \/ \E i \in Workers : WorkerDone(i)
    \/ \E i \in Workers : WorkerSend(i)
    \/ Sentinel
    \/ Consume
    \/ MainReturn
    \/ CallerClose
    \/ PumpDrain
    \/ PumpExit

(***************************************************************************)
(* Outcome classification on its own: every outcome client.Do can return   *)
(***************************************************************************)
AllCodes == 100..599
AllOutcomes ==
    {[kind |-> "transport", code |-> 0]}
        \cup {[kind |-> "resp", code |-> c] : c \in AllCodes}

InitClassify ==
    /\ clsIn \in AllOutcomes
    /\ clsOut = NoResult

\* the if / else if / else after client.Do in the worker loop
ApplyClassify ==
    /\ clsOut = NoResult
    /\ clsOut' = Classify(clsIn, CanonName("GET", "/a"))
    /\ UNCHANGED <<clsIn, notClassify>>

(***************************************************************************)
(* percentile, on its own: every sorted list of latencies, every p         *)
(***************************************************************************)
IsSorted(d) == \A i \in 1..(Len(d) - 1) : d[i] <= d[i + 1]
SortedLists ==
    UNION {{d \in [1..n -> 1..MaxLat] : IsSorted(d)} : n \in 0..MaxLen}

\* k := int(float64(len(durations)) * float64(p) / 100.0): the product of
\* the two integers is exact in float64, and the correctly rounded quotient
\* of an integer below 2^46 by 100 has the integer part of the exact
\* quotient, so k is the integer quotient.  durations[k] is 0-based.
PercentileNearestRank(durations, p) ==
    IF Len(durations) = 0 THEN 0
    ELSE LET k == (Len(durations) * p + 99) \div 100 - 1
         IN durations[(IF k >= Len(durations) THEN Len(durations) - 1
                       ELSE k) + 1]
Percentile(durations, p) ==
    IF Len(durations) = 0 THEN 0
    ELSE LET k == (Len(durations) * p) \div 100
         IN durations[(IF k >= Len(durations) THEN Len(durations) - 1
                       ELSE k) + 1]

InitPercentile ==
    /\ pctL \in SortedLists
    /\ pctP \in 1..100
    /\ pctOut = 0
    /\ pctDone = FALSE

ApplyPercentile ==
    /\ ~pctDone
    /\ pctOut' = Percentile(pctL, pctP)
    /\ pctDone' = TRUE
    /\ UNCHANGED <<pctL, pctP, notPercentile>>

NextPercentile == ApplyPercentile

(***************************************************************************)
(* Scenario parsing: runInternal up to the launch of the workers           *)
(***************************************************************************)
\* A duration string of the profile, as time.ParseDuration reads it: an
\* optional sign, the digits, the unit.  "" is [sign "", num "", unit ""].
DurStrings ==
    [sign : {"", "-"}, num : {"", "0", "1"}, unit : {"", "s", "x"}]
EmptyStr == [sign |-> "", num |-> "", unit |-> ""]

\* time.ParseDuration: the sign is consumed; "0" alone is 0; no digit is
\* an error; digits with no unit or with an unknown unit are an error;
\* otherwise the signed value (in ticks of one second).
ParseDuration(s) ==
    IF s.num = "" THEN [ok |-> FALSE, val |-> 0]
    ELSE IF s.unit = ""
         THEN [ok |-> s.num = "0", val |-> 0]
    ELSE IF s.unit = "x" THEN [ok |-> FALSE, val |-> 0]
    ELSE LET v == IF s.num = "1" THEN 1 ELSE 0
         IN [ok |-> TRUE, val |-> IF s.sign = "-" THEN 0 - v ELSE v]

PrsFiles ==
    [readable : BOOLEAN, yamlOk : BOOLEAN, scenarios : 0..1,
     duration : DurStrings, rampUp : DurStrings]
NotParsed ==
    [done |-> FALSE, err |-> "nil", duration |-> 0, rampUp |-> 0,
     launch |-> FALSE]
PrsFail(e) ==
    [done |-> TRUE, err |-> e, duration |-> 0, rampUp |-> 0,
     launch |-> FALSE]

\* os.ReadFile, yaml.Unmarshal, len(file.Scenarios) == 0,
\* time.ParseDuration(profile.Duration); then
\* if profile.RampUp != "" { if ru, err := ParseDuration(..); err == nil {
\* rampUp = ru } }; then the workers are launched
ParsePlan(f) ==
    IF ~f.readable THEN PrsFail("cannot read YAML file")
    ELSE IF ~f.yamlOk THEN PrsFail("invalid YAML")
    ELSE IF f.scenarios = 0 THEN PrsFail("no scenarios found in YAML")
    ELSE IF ~ParseDuration(f.duration).ok THEN PrsFail("invalid duration")
    ELSE [done |-> TRUE, err |-> "nil",
          duration |-> ParseDuration(f.duration).val,
          rampUp |-> IF f.rampUp # EmptyStr /\ ParseDuration(f.rampUp).ok
                     THEN ParseDuration(f.rampUp).val ELSE 0,
          launch |-> TRUE]

InitParse ==
    /\ prsIn \in PrsFiles
    /\ prsOut = NotParsed

ApplyParse ==
    /\ ~prsOut.done
    /\ prsOut' = ParsePlan(prsIn)
    /\ UNCHANGED <<prsIn, notParse>>

NextParse == ApplyParse

(***************************************************************************)
(* Recording proxy: Recorder.Start, Stop, handleHTTP, handleConnect        *)
(***************************************************************************)
Handlers == 1..NHandlers
NoReply == [status |-> "", closed |-> FALSE]
NoRGhost ==
    [offered |-> [h \in Handlers |-> <<>>], dropped |-> {},
     panicked |-> FALSE]

lifeVars == <<pcStart, rtimer, stopClosed, sig>>
outVars == <<snapshot, artifact, files, startRet>>
evVars == <<recEvents, evClosed, rghost>>

\* New, then Start up to its select: the server is listening
InitRecorder ==
    /\ pcStart = "listening"
    /\ rtimer = 0
    /\ stopClosed = FALSE
    /\ sig = FALSE
    /\ hnd = [h \in Handlers |-> [kind |-> "none", pc |-> "idle"]]
    /\ reply = [h \in Handlers |-> NoReply]
    /\ records = <<>>
    /\ recEvents = <<>>
    /\ evClosed = FALSE
    /\ tun = FALSE
    /\ snapshot = <<>>
    /\ artifact = <<>>
    /\ files = 0
    /\ startRet = ""
    /\ rghost = NoRGhost

\* Stop: select { case <-r.stopCh: default: close(r.stopCh) }
Stop ==
    /\ ~stopClosed
    /\ stopClosed' = TRUE
    /\ UNCHANGED <<pcStart, rtimer, sig, hnd, reply, records, tun>>
    /\ UNCHANGED <<evVars, outVars, notRecorder>>

\* signal.Notify(stop, os.Interrupt, syscall.SIGTERM): a signal arrives
Interrupt ==
    /\ pcStart = "listening"
    /\ ~sig
    /\ sig' = TRUE
    /\ UNCHANGED <<pcStart, rtimer, stopClosed, hnd, reply, records,
                   tun>>
    /\ UNCHANGED <<evVars, outVars, notRecorder>>

\* select { case <-stop: case <-r.stopCh: }
StartWakeSpurious ==       \* the select falls through at once
    /\ pcStart = "listening"
    /\ pcStart' = "drain"
    /\ rtimer' = 0
    /\ UNCHANGED <<stopClosed, sig, hnd, reply, records, tun>>
    /\ UNCHANGED <<evVars, outVars, notRecorder>>
StartWake ==
    /\ pcStart = "listening"
    /\ stopClosed \/ sig
    /\ pcStart' = "drain"
    /\ rtimer' = 0
    /\ UNCHANGED <<stopClosed, sig, hnd, reply, records, tun>>
    /\ UNCHANGED <<evVars, outVars, notRecorder>>

\* a handler on a connection the server still tracks (not yet hijacked)
Serving(h) == hnd[h].pc \in {"record", "forward", "emit"}

\* a second passes while Start sleeps, or while server.Shutdown waits for
\* a connection that is still being served
RecTick ==
    /\ \/ pcStart = "drain" /\ rtimer < DrainWindow
       \/ /\ pcStart = "shutdown" /\ rtimer < ShutdownDeadline
          /\ \E h \in Handlers : Serving(h)
    /\ rtimer' = rtimer + 1
    /\ UNCHANGED <<pcStart, stopClosed, sig, hnd, reply, records, tun>>
    /\ UNCHANGED <<evVars, outVars, notRecorder>>

\* time.Sleep(2 * time.Second) returns; server.Shutdown(ctx) is called
DrainDone ==
    /\ pcStart = "drain"
    /\ rtimer = DrainWindow
    /\ pcStart' = "shutdown"
    /\ rtimer' = 0
    /\ UNCHANGED <<stopClosed, sig, hnd, reply, records, tun>>
    /\ UNCHANGED <<evVars, outVars, notRecorder>>

\* server.Shutdown returns: every tracked connection is idle, or the
\* deadline of the context has passed
ShutdownDone ==
    /\ pcStart = "shutdown"
    /\ (\A h \in Handlers : ~Serving(h)) \/ rtimer = ShutdownDeadline
    /\ pcStart' = "close"
    /\ rtimer' = 0
    /\ UNCHANGED <<stopClosed, sig, hnd, reply, records, tun>>
    /\ UNCHANGED <<evVars, outVars, notRecorder>>

\* close(r.Events)
CloseEvents ==
    /\ pcStart = "close"
    /\ evClosed' = TRUE
    /\ pcStart' = "snapshot"
    /\ UNCHANGED <<rtimer, stopClosed, sig, hnd, reply, records, tun,
                   recEvents, rghost>>
    /\ UNCHANGED <<outVars, notRecorder>>

\* writeYAML: r.mu.Lock(); records := make(...); copy(records, r.records);
\* r.mu.Unlock()  (the critical section is one step)
SnapCopy ==
    /\ pcStart = "snapshot"
    /\ snapshot' = records
    /\ pcStart' = "write"
    /\ UNCHANGED <<rtimer, stopClosed, sig, hnd, reply, records, tun,
                   artifact, files, startRet>>
    /\ UNCHANGED <<evVars, notRecorder>>

\* one entry of the requests list: the 1-based index goes into the name
Entry(rec, i) ==
    [n |-> i, method |-> rec.method, h |-> rec.h, body |-> rec.body,
     note |-> rec.note]

\* writeYAML after the snapshot: nothing for an empty list; otherwise the
\* entries are built from the copy, the file is created (os.Create can
\* fail) and encoded; Start returns nil or the wrapped error
WriteFromLive ==           \* the entries built from r.records, not the copy
    /\ pcStart = "write"
    /\ pcStart' = "stopped"
    /\ IF snapshot = <<>>
       THEN /\ startRet' = "nil"
            /\ UNCHANGED <<artifact, files>>
       ELSE \E ok \in BOOLEAN :
              IF ok
              THEN /\ files' = files + 1
                   /\ artifact' = [i \in 1..Len(records) |->
                                      Entry(records[i], i)]
                   /\ startRet' = "nil"
              ELSE /\ startRet' = "error"
                   /\ UNCHANGED <<artifact, files>>
    /\ UNCHANGED <<rtimer, stopClosed, sig, hnd, reply, records, tun,
                   snapshot>>
    /\ UNCHANGED <<evVars, notRecorder>>
WriteIgnoreError ==        \* the error of writeYAML dropped by Start
    /\ pcStart = "write"
    /\ pcStart' = "stopped"
    /\ IF snapshot = <<>>
       THEN /\ startRet' = "nil"
            /\ UNCHANGED <<artifact, files>>
       ELSE \E ok \in BOOLEAN :
              IF ok
              THEN /\ files' = files + 1
                   /\ artifact' = [i \in 1..Len(snapshot) |->
                                      Entry(snapshot[i], i)]
                   /\ startRet' = "nil"
              ELSE /\ startRet' = "nil"
                   /\ UNCHANGED <<artifact, files>>
    /\ UNCHANGED <<rtimer, stopClosed, sig, hnd, reply, records, tun,
                   snapshot>>
    /\ UNCHANGED <<evVars, notRecorder>>
\* log.Printf("[RECORDER] ... Session saved to: %s", r.OutDir) is reached
\* exactly when writeYAML returned nil
SavedLogged == startRet = "nil"
WriteArtifact ==
    /\ pcStart = "write"
    /\ pcStart' = "stopped"
    /\ IF snapshot = <<>>
       THEN /\ startRet' = "nil"
            /\ UNCHANGED <<artifact, files>>
       ELSE \E ok \in BOOLEAN :
              IF ok
              THEN /\ files' = files + 1
                   /\ artifact' = [i \in 1..Len(snapshot) |->
                                      Entry(snapshot[i], i)]
                   /\ startRet' = "nil"
              ELSE /\ startRet' = "error"
                   /\ UNCHANGED <<artifact, files>>
    /\ UNCHANGED <<rtimer, stopClosed, sig, hnd, reply, records, tun,
                   snapshot>>
    /\ UNCHANGED <<evVars, notRecorder>>

\* a request reaches handleHTTP while the server accepts connections
Arrive(h, k) ==
    /\ hnd[h].pc = "idle"
    /\ \A g \in 1..(h - 1) : hnd[g].pc # "idle"
    /\ pcStart \in {"listening", "drain"}
    /\ hnd' = [hnd EXCEPT ![h] = [kind |-> k, pc |-> "record"]]
    /\ UNCHANGED <<lifeVars, reply, records, tun>>
    /\ UNCHANGED <<evVars, outVars, notRecorder>>

\* the RecordedRequest of a request: a CONNECT has a note and no body
Rec(h, k) ==
    IF k = "connect"
    THEN [method |-> "CONNECT", h |-> h, body |-> "",
          note |-> "HTTPS tunnel (CONNECT)"]
    ELSE [method |-> "GET", h |-> h, body |-> "b", note |-> ""]

\* r.mu.Lock(); r.records = append(r.records, rec); r.mu.Unlock()  (the
\* critical section is one step)
RecAppendUnlocked(h) ==    \* two appends in flight write the same slot
    /\ hnd[h].pc = "record"
    /\ records' = IF \E g \in Handlers \ {h} : hnd[g].pc = "record"
                  THEN records
                  ELSE Append(records, Rec(h, hnd[h].kind))
    /\ hnd' = [hnd EXCEPT ![h].pc =
                  IF hnd[h].kind = "connect" THEN "emit" ELSE "forward"]
    /\ UNCHANGED <<lifeVars, reply, tun>>
    /\ UNCHANGED <<evVars, outVars, notRecorder>>
RecAppend(h) ==
    /\ hnd[h].pc = "record"
    /\ records' = Append(records, Rec(h, hnd[h].kind))
    /\ hnd' = [hnd EXCEPT ![h].pc =
                  IF hnd[h].kind = "connect" THEN "emit" ELSE "forward"]
    /\ UNCHANGED <<lifeVars, reply, tun>>
    /\ UNCHANGED <<evVars, outVars, notRecorder>>

\* resp, err := http.DefaultTransport.RoundTrip(req): on an error
\* http.Error(w, ..., 502) and return; otherwise the response is copied to
\* the client
Forward(h) ==
    /\ hnd[h].pc = "forward"
    /\ \E ok \in BOOLEAN :
          IF ok
          THEN /\ reply' = [reply EXCEPT ![h].status = "200"]
               /\ hnd' = [hnd EXCEPT ![h].pc = "emit"]
          ELSE /\ reply' = [reply EXCEPT ![h].status = "502"]
               /\ hnd' = [hnd EXCEPT ![h].pc = "done"]
    /\ UNCHANGED <<lifeVars, records, tun>>
    /\ UNCHANGED <<evVars, outVars, notRecorder>>

\* the RecordedEvent a handler passes to emitEvent
EventOf(h, k) ==
    IF k = "connect"
    THEN [method |-> "CONNECT", h |-> h, status |-> 0,
          note |-> "HTTPS tunnel established"]
    ELSE [method |-> "GET", h |-> h, status |-> 200, note |-> ""]

\* emitEvent: select { case r.Events <- ev: default: }  (a send on the
\* closed channel panics; net/http recovers the panic and drops the
\* connection)
EmitEventBlocking(h) ==    \* a plain  r.Events <- ev
    /\ hnd[h].pc = "emit"
    /\ ~evClosed
    /\ Len(recEvents) < RecEventsCap
    /\ recEvents' = Append(recEvents, EventOf(h, hnd[h].kind))
    /\ rghost' = [rghost EXCEPT
                     !.offered[h] = Append(@, EventOf(h, hnd[h].kind))]
    /\ hnd' = [hnd EXCEPT ![h].pc =
                  IF hnd[h].kind = "connect" THEN "dial" ELSE "done"]
    /\ UNCHANGED <<lifeVars, reply, records, tun, evClosed>>
    /\ UNCHANGED <<outVars, notRecorder>>
EmitEvent(h) ==
    /\ hnd[h].pc = "emit"
    /\ LET ev == EventOf(h, hnd[h].kind) IN
       IF evClosed
       THEN /\ rghost' = [rghost EXCEPT !.panicked = TRUE,
                                        !.offered[h] = Append(@, ev)]
            /\ hnd' = [hnd EXCEPT ![h].pc = "done"]
            /\ reply' = [reply EXCEPT ![h].closed = TRUE]
            /\ UNCHANGED recEvents
       ELSE /\ recEvents' = IF Len(recEvents) < RecEventsCap
                            THEN Append(recEvents, ev) ELSE recEvents
            /\ rghost' = [rghost EXCEPT
                             !.offered[h] = Append(@, ev),
                             !.dropped = IF Len(recEvents) < RecEventsCap
                                         THEN @ ELSE @ \cup {h}]
            /\ hnd' = [hnd EXCEPT ![h].pc =
                          IF hnd[h].kind = "connect" THEN "dial" ELSE "done"]
            /\ UNCHANGED reply
    /\ UNCHANGED <<lifeVars, records, tun, evClosed>>
    /\ UNCHANGED <<outVars, notRecorder>>

\* hj.Hijack(); net.DialTimeout("tcp", host, 10*time.Second): on an error
\* "HTTP/1.1 502 Bad Gateway" is written and the client closed; otherwise
\* "HTTP/1.1 200 Connection established" and the two transfer goroutines
DialTunnelAlways(h) ==     \* the transfers started whatever the dial gave
    /\ hnd[h].pc = "dial"
    /\ \E ok \in BOOLEAN :
          /\ reply' = [reply EXCEPT ![h] =
                          IF ok THEN [status |-> "200", closed |-> FALSE]
                          ELSE [status |-> "502", closed |-> TRUE]]
          /\ hnd' = [hnd EXCEPT ![h].pc = "tunnel"]
    /\ UNCHANGED <<lifeVars, records, tun>>
    /\ UNCHANGED <<evVars, outVars, notRecorder>>
Dial(h) ==
    /\ hnd[h].pc = "dial"
    /\ \E ok \in BOOLEAN :
          IF ok
          THEN /\ reply' = [reply EXCEPT ![h] =
                               [status |-> "200", closed |-> FALSE]]
               /\ hnd' = [hnd EXCEPT ![h].pc = "tunnel"]
          ELSE /\ reply' = [reply EXCEPT ![h] =
                               [status |-> "502", closed |-> TRUE]]
               /\ hnd' = [hnd EXCEPT ![h].pc = "done"]
    /\ UNCHANGED <<lifeVars, records, tun>>
    /\ UNCHANGED <<evVars, outVars, notRecorder>>

\* transfer: io.Copy(dst, src) moves a byte, in either direction
TransferCopyCaptured(h) ==    \* the byte also lands in the capture list
    /\ hnd[h].pc = "tunnel"
    /\ tun' = TRUE
    /\ records' = [i \in 1..Len(records) |->
                      IF records[i].h = h
                      THEN [records[i] EXCEPT !.body = "x"] ELSE records[i]]
    /\ UNCHANGED <<lifeVars, hnd, reply>>
    /\ UNCHANGED <<evVars, outVars, notRecorder>>
TransferCopy(h) ==
    /\ hnd[h].pc = "tunnel"
    /\ tun' = TRUE
    /\ UNCHANGED <<lifeVars, hnd, reply, records>>
    /\ UNCHANGED <<evVars, outVars, notRecorder>>

\* io.Copy returns (EOF or error); the deferred Close calls run
TransferEnd(h) ==
    /\ hnd[h].pc = "tunnel"
    /\ hnd' = [hnd EXCEPT ![h].pc = "done"]
    /\ reply' = [reply EXCEPT ![h].closed = TRUE]
    /\ UNCHANGED <<lifeVars, records, tun>>
    /\ UNCHANGED <<evVars, outVars, notRecorder>>

\* the owner's goroutine  for ev := range rec.Events  takes an event
EventRead ==
    /\ recEvents # <<>>
    /\ recEvents' = Tail(recEvents)
    /\ UNCHANGED <<lifeVars, hnd, reply, records, tun, evClosed,
                   rghost>>
    /\ UNCHANGED <<outVars, notRecorder>>

NextRecorder ==
    \/ Stop
    \/ Interrupt
    \/ StartWake
    \/ RecTick
    \/ DrainDone
    \/ ShutdownDone
    \/ CloseEvents
    \/ SnapCopy
    \/ WriteArtifact
    \/ \E h \in Handlers, k \in {"http", "connect"} : Arrive(h, k)
    \/ \E h \in Handlers : RecAppend(h)
    \/ \E h \in Handlers : Forward(h)
    \/ \E h \in Handlers : EmitEvent(h)
    \/ \E h \in Handlers : Dial(h)
    \/ \E h \in Handlers : TransferCopy(h)
    \/ \E h \in Handlers : TransferEnd(h)
    \/ EventRead

(***************************************************************************)
(* The session artifact on its own: writeYAML on every small capture list, *)
(* then the engine reading the file                                        *)
(***************************************************************************)
\* header names, as sequences of characters
KCookie == <<"C", "o", "o", "k", "i", "e">>
KcookieLower == <<"c", "o", "o", "k", "i", "e">>
KXCookie == <<"X", "-", "C", "o", "o", "k", "i", "e">>
KAccept == <<"A", "c", "c", "e", "p", "t">>
HeaderKeys == {KCookie, KcookieLower, KXCookie, KAccept}
HeaderVals(k) == IF k = KAccept THEN {"a", "b"} ELSE {"a"}

\* strings.ToLower, on the characters the header names are made of
LowerChar(c) ==
    CASE c = "C" -> "c"
      [] c = "X" -> "x"
      [] c = "A" -> "a"
      [] OTHER -> c
ToLower(k) == [i \in 1..Len(k) |-> LowerChar(k[i])]

\* rec.Headers: a map from some of the names to a value
HeaderMaps ==
    UNION {{m \in [K -> {"a", "b"}] : \A k \in K : m[k] \in HeaderVals(k)} :
           K \in SUBSET HeaderKeys}

\* The records of the model.  The URL is its scheme and what follows the
\* host: "http://h/a", "https://h/a", and "//h:443" for a CONNECT.
WRecords ==
    {[method |-> "GET", scheme |-> sc, rest |-> "/a", host |-> "h",
      headers |-> m, body |-> "b", note |-> ""] :
        sc \in {"http", "https"}, m \in HeaderMaps}
    \cup
    {[method |-> "CONNECT", scheme |-> "", rest |-> "//h:443",
      host |-> "h:443", headers |-> m, body |-> "",
      note |-> "HTTPS tunnel (CONNECT)"] : m \in HeaderMaps}
WLists == UNION {[1..n -> WRecords] : n \in 0..MaxRecs}

\* cleanHeaders: every header whose lower-cased name is not "cookie"
CleanHeadersExact(h) ==        \* the name compared as it is
    [k \in {x \in DOMAIN h : x # KcookieLower} |-> h[k]]
CleanHeaders(h) ==
    [k \in {x \in DOMAIN h : ToLower(x) # KcookieLower} |-> h[k]]

\* one entry of the requests list
WEntry(rec, i) ==
    LET req == [name |-> <<i, rec.method, rec.host>>,
                method |-> rec.method,
                protocol |-> IF rec.scheme = "http" THEN "http" ELSE "https",
                host |-> rec.host,
                path |-> rec.rest,
                headers |-> CleanHeaders(rec.headers),
                body |-> rec.body]
    IN IF rec.note # "" THEN req @@ [note |-> rec.note] ELSE req

\* "10s"
TenSeconds == [sign |-> "", num |-> "10", unit |-> "s"]
NoDoc == [none |-> TRUE]
\* writeYAML: nothing for an empty list, otherwise the document encoded
Emit(recs) ==
    IF recs = <<>> THEN NoDoc
    ELSE [version |-> "1.0", scenario |-> "Recorded Session",
          concurrency |-> 1, duration |-> TenSeconds,
          requests |-> [i \in 1..Len(recs) |-> WEntry(recs[i], i)]]

\* yaml.Unmarshal into a struct: a field takes the value under its key, or
\* stays at its zero value
Field(doc, key, zero) == IF key \in DOMAIN doc THEN doc[key] ELSE zero
\* a Request of the engine read from an entry: keys it has no field for
\* are ignored
AsRequest(e) ==
    [name |-> Field(e, "name", <<>>), method |-> Field(e, "method", ""),
     protocol |-> Field(e, "protocol", ""), host |-> Field(e, "host", ""),
     path |-> Field(e, "path", ""), headers |-> Field(e, "headers", <<>>),
     body |-> Field(e, "body", "")]
AsRequests(l) == [i \in 1..Len(l) |-> AsRequest(l[i])]

NoRun == [done |-> FALSE, engine |-> "", err |-> "", requests |-> <<>>]
RunFail(en, e) == [done |-> TRUE, engine |-> en, err |-> e, requests |-> <<>>]

\* runInternal reading the file into a ScenarioFile: the scenarios key,
\* the first scenario, its profile
ReplayFile(doc) ==
    LET scenarios == Field(doc, "scenarios", <<>>) IN
    IF Len(scenarios) = 0
    THEN RunFail("file", "no scenarios found in YAML")
    ELSE LET sc == scenarios[1]
             profile == Field(sc, "profile", [duration |-> EmptyStr])
         IN IF ~ParseDuration(Field(profile, "duration", EmptyStr)).ok
            THEN RunFail("file", "invalid duration")
            ELSE [done |-> TRUE, engine |-> "file", err |-> "nil",
                  requests |-> AsRequests(Field(sc, "requests", <<>>))]

\* runInternal of pkg/engine reading the file into a flat Scenario
ReplayFlat(doc) ==
    IF ~ParseDuration(Field(doc, "duration", EmptyStr)).ok
    THEN RunFail("flat", "invalid duration")
    ELSE [done |-> TRUE, engine |-> "flat", err |-> "nil",
          requests |-> AsRequests(Field(doc, "requests", <<>>))]

InitArtifact ==
    /\ wRecs \in WLists
    /\ wDoc = NoDoc
    /\ wRun = NoRun

\* the recorder stops and writes
ApplyEmit ==
    /\ wDoc = NoDoc
    /\ wRecs # <<>>
    /\ wDoc' = Emit(wRecs)
    /\ UNCHANGED <<wRecs, wRun, notArtifact>>

\* the engine is run on the file written
ApplyReplayFile ==
    /\ wDoc # NoDoc
    /\ ~wRun.done
    /\ wRun' = ReplayFile(wDoc)
    /\ UNCHANGED <<wRecs, wDoc, notArtifact>>
ApplyReplayFlat ==
    /\ wDoc # NoDoc
    /\ ~wRun.done
    /\ wRun' = ReplayFlat(wDoc)
    /\ UNCHANGED <<wRecs, wDoc, notArtifact>>

NextArtifact == ApplyEmit \/ ApplyReplayFile \/ ApplyReplayFlat

(***************************************************************************)
(* Control surface of the serve command: /api/start-record and             *)
(* /api/stop-record, the recorder goroutine, the pump                      *)
(***************************************************************************)
Recorders == 1..MaxRecorders
NoReplyYet == [op |-> "", code |-> 0]
\* a recorder between the beginning of its Start call and its return:
\* listening, in the drain window or in Shutdown, or past Shutdown (events
\* closed, artifact being written)
LivePhases == {"listening", "draining", "closing"}
\* the listener on :8888 is held from the bind to Shutdown
PortPhases == {"listening", "draining"}

InitControl ==
    /\ isRunning = FALSE
    /\ ctlRec = 0
    /\ rcState = [r \in Recorders |-> "none"]
    /\ rcStop = [r \in Recorders |-> FALSE]
    /\ pump = [r \in Recorders |-> "none"]
    /\ calls = 0
    /\ lastReply = NoReplyYet
    /\ crashed = FALSE

\* /api/start-record, under mu: 409 if isRunning; otherwise
\* rec = recorder.New(...), isRunning = true, the pump and the recorder
\* goroutine are launched, 200
\* (the recorder constructed is the next one of the model)
Unused == {r \in Recorders : rcState[r] = "none"}
NextRecorderId == CHOOSE r \in Unused : \A q \in Unused : r <= q
StartRecordUnguarded ==        \* without the isRunning test
    /\ ~crashed
    /\ calls < MaxCalls
    /\ calls' = calls + 1
    /\ Unused # {}
    /\ ctlRec' = NextRecorderId
    /\ isRunning' = TRUE
    /\ rcState' = [rcState EXCEPT ![NextRecorderId] = "new"]
    /\ pump' = [pump EXCEPT ![NextRecorderId] = "running"]
    /\ lastReply' = [op |-> "start", code |-> 200]
    /\ UNCHANGED <<rcStop, crashed, notControl>>
StartRecord ==
    /\ ~crashed
    /\ calls < MaxCalls
    /\ calls' = calls + 1
    /\ IF isRunning
       THEN /\ lastReply' = [op |-> "start", code |-> 409]
            /\ UNCHANGED <<isRunning, ctlRec, rcState, pump>>
       ELSE /\ Unused # {}
            /\ ctlRec' = NextRecorderId
            /\ isRunning' = TRUE
            /\ rcState' = [rcState EXCEPT ![NextRecorderId] = "new"]
            /\ pump' = [pump EXCEPT ![NextRecorderId] = "running"]
            /\ lastReply' = [op |-> "start", code |-> 200]
    /\ UNCHANGED <<rcStop, crashed, notControl>>

\* /api/stop-record, under mu: 400 if !isRunning || rec == nil; otherwise
\* rec.Stop() (close(stopCh) unless closed), isRunning = false, 200
StopRecordSync ==              \* replies once Start has returned
    /\ ~crashed
    /\ calls < MaxCalls
    /\ calls' = calls + 1
    /\ IF ~isRunning \/ ctlRec = 0
       THEN /\ lastReply' = [op |-> "stop", code |-> 400]
            /\ UNCHANGED <<isRunning, rcStop, rcState>>
       ELSE /\ rcStop' = [rcStop EXCEPT ![ctlRec] = TRUE]
            /\ rcState' = [rcState EXCEPT ![ctlRec] = "returned"]
            /\ isRunning' = FALSE
            /\ lastReply' = [op |-> "stop", code |-> 200]
    /\ UNCHANGED <<ctlRec, pump, crashed, notControl>>
StopRecord ==
    /\ ~crashed
    /\ calls < MaxCalls
    /\ calls' = calls + 1
    /\ IF ~isRunning \/ ctlRec = 0
       THEN /\ lastReply' = [op |-> "stop", code |-> 400]
            /\ UNCHANGED <<isRunning, rcStop>>
       ELSE /\ rcStop' = [rcStop EXCEPT ![ctlRec] = TRUE]
            /\ isRunning' = FALSE
            /\ lastReply' = [op |-> "stop", code |-> 200]
    /\ UNCHANGED <<ctlRec, rcState, pump, crashed, notControl>>

\* the recorder goroutine calls rec.Start(): the server goroutine binds
\* :8888; when the address is still held ListenAndServe fails and
\* log.Fatalf ends the process
RecStart(r) ==
    /\ ~crashed
    /\ rcState[r] = "new"
    /\ IF \E q \in Recorders : rcState[q] \in PortPhases
       THEN crashed' = TRUE /\ UNCHANGED rcState
       ELSE rcState' = [rcState EXCEPT ![r] = "listening"] /\ UNCHANGED crashed
    /\ UNCHANGED <<isRunning, ctlRec, rcStop, pump, calls, lastReply,
                   notControl>>

\* Start: case <-r.stopCh; the drain window begins
RecWake(r) ==
    /\ ~crashed
    /\ rcState[r] = "listening"
    /\ rcStop[r]
    /\ rcState' = [rcState EXCEPT ![r] = "draining"]
    /\ UNCHANGED <<isRunning, ctlRec, rcStop, pump, calls, lastReply, crashed,
                   notControl>>

\* Start: the sleep and server.Shutdown are over, close(r.Events)
RecShutdown(r) ==
    /\ ~crashed
    /\ rcState[r] = "draining"
    /\ rcState' = [rcState EXCEPT ![r] = "closing"]
    /\ UNCHANGED <<isRunning, ctlRec, rcStop, pump, calls, lastReply, crashed,
                   notControl>>

\* Start: writeYAML is over, Start returns
RecReturn(r) ==
    /\ ~crashed
    /\ rcState[r] = "closing"
    /\ rcState' = [rcState EXCEPT ![r] = "returned"]
    /\ UNCHANGED <<isRunning, ctlRec, rcStop, pump, calls, lastReply, crashed,
                   notControl>>

\* the recorder goroutine after Start: mu.Lock(); isRunning = false;
\* mu.Unlock()
RecFinish(r) ==
    /\ ~crashed
    /\ rcState[r] = "returned"
    /\ rcState' = [rcState EXCEPT ![r] = "finished"]
    /\ isRunning' = FALSE
    /\ UNCHANGED <<ctlRec, rcStop, pump, calls, lastReply, crashed,
                   notControl>>

\* for ev := range rec.Events ends when the channel is closed
PumpEnd(r) ==
    /\ ~crashed
    /\ pump[r] = "running"
    /\ rcState[r] \in {"closing", "returned", "finished"}
    /\ pump' = [pump EXCEPT ![r] = "ended"]
    /\ UNCHANGED <<isRunning, ctlRec, rcState, rcStop, calls, lastReply,
                   crashed, notControl>>

NextControl ==
    \/ StartRecord
    \/ StopRecord
    \/ \E r \in Recorders : RecStart(r)
    \/ \E r \in Recorders : RecWake(r)
    \/ \E r \in Recorders : RecShutdown(r)
    \/ \E r \in Recorders : RecReturn(r)
    \/ \E r \in Recorders : RecFinish(r)
    \/ \E r \in Recorders : PumpEnd(r)

(***************************************************************************)
(* Orchestrator: /api/report and the event pump of /api/run                *)
(***************************************************************************)
\* An arriving event: its Method and Name, and for a report whether the
\* body decodes as an Event.
InMethods == {"", "SYSTEM", "INFO", "GET"}
InEvents ==
    [method : InMethods, name : {"RAMP_PROGRESS", "GET /a"}, ok : BOOLEAN]
InQueues == UNION {[1..n -> InEvents] : n \in 1..MaxEvents}
\* the orchestrator sources: cmd/orchestrator/main.go, and the other main
\* package of the repository
Builds == {"main", "variant"}

\* an event that has arrived, with the way it came
Arrived(ev, via) ==
    [method |-> ev.method, name |-> ev.name, ok |-> ev.ok, via |-> via]

\* json.Marshal(ev)
Marshal(ev) == <<"json", ev.method, ev.name>>
\* ev.Method == "" || ev.Method == "SYSTEM" || ev.Method == "INFO"
IsSystem(ev) == ev.method = "" \/ ev.method = "SYSTEM" \/ ev.method = "INFO"

InitIngest ==
    /\ build \in Builds
    /\ inQueue \in InQueues
    /\ handled = <<>>
    /\ bus = <<>>

\* /api/report of main.go: 400 on a body that does not decode; a system
\* event is dropped; otherwise json.Marshal and broker.broadcast
ReportMain ==
    /\ build = "main"
    /\ inQueue # <<>>
    /\ LET ev == Head(inQueue) IN
       /\ handled' = Append(handled, Arrived(ev, "report"))
       /\ bus' = IF ev.ok /\ ~IsSystem(ev)
                 THEN Append(bus, Marshal(ev)) ELSE bus
    /\ inQueue' = Tail(inQueue)
    /\ UNCHANGED <<build, notIngest>>

\* the pump of /api/run of main.go: for ev := range events, a system event
\* is skipped, every other one marshalled and broadcast
PumpMain ==
    /\ build = "main"
    /\ inQueue # <<>>
    /\ Head(inQueue).ok
    /\ LET ev == Head(inQueue) IN
       /\ handled' = Append(handled, Arrived(ev, "pump"))
       /\ bus' = IF ~IsSystem(ev) THEN Append(bus, Marshal(ev)) ELSE bus
    /\ inQueue' = Tail(inQueue)
    /\ UNCHANGED <<build, notIngest>>

\* /api/report of the other source: 400 on a body that does not decode;
\* every event decoded is marshalled and broadcast
ReportVariant ==
    /\ build = "variant"
    /\ inQueue # <<>>
    /\ LET ev == Head(inQueue) IN
       /\ handled' = Append(handled, Arrived(ev, "report"))
       /\ bus' = IF ev.ok THEN Append(bus, Marshal(ev)) ELSE bus
    /\ inQueue' = Tail(inQueue)
    /\ UNCHANGED <<build, notIngest>>

\* the pump of /api/run of the other source: every event is marshalled and
\* broadcast
PumpVariant ==
    /\ build = "variant"
    /\ inQueue # <<>>
    /\ Head(inQueue).ok
    /\ LET ev == Head(inQueue) IN
       /\ handled' = Append(handled, Arrived(ev, "pump"))
       /\ bus' = Append(bus, Marshal(ev))
    /\ inQueue' = Tail(inQueue)
    /\ UNCHANGED <<build, notIngest>>

NextIngest == ReportMain \/ PumpMain \/ ReportVariant \/ PumpVariant

(***************************************************************************)
(* One subscriber stream: the /api/events handler after addClient          *)
(***************************************************************************)
\* The handler has registered its channel and created its ticker.
InitStream ==
    /\ stNow = 0
    /\ stTick = FALSE
    /\ stQueue = <<>>
    /\ stSent = 0
    /\ stOut = <<>>
    /\ stPc = "streaming"
    /\ stNotify = FALSE
    /\ stSinkOk = TRUE
    /\ stSub = TRUE
    /\ stClosed = FALSE

\* a second passes; the ticker puts a tick in ticker.C every
\* HeartbeatPeriod seconds (a tick not yet taken is not doubled)
StClock ==
    /\ stNow < MaxClock
    /\ stNow' = stNow + 1
    /\ stTick' = IF stPc = "streaming" /\ (stNow + 1) % HeartbeatPeriod = 0
                  THEN TRUE ELSE stTick
    /\ UNCHANGED <<stQueue, stSent, stOut, stPc, stNotify, stSinkOk, stSub,
                   stClosed, notStream>>

\* broker.broadcast reaches this subscriber: select { case ch <- msg:
\* default: }
StPublish ==
    /\ stSent < MaxMsgs
    /\ stSub
    /\ stSent' = stSent + 1
    /\ stQueue' = TrySend(stQueue, stSent + 1)
    /\ UNCHANGED <<stNow, stTick, stOut, stPc, stNotify, stSinkOk, stSub,
                   stClosed, notStream>>

\* the client goes away: the close-notify channel fires
StClientGone ==
    /\ ~stNotify
    /\ stNotify' = TRUE
    /\ UNCHANGED <<stNow, stTick, stQueue, stSent, stOut, stPc, stSinkOk,
                   stSub, stClosed, notStream>>

\* the sink starts rejecting writes, and goes on rejecting them
StSinkBreaks ==
    /\ stSinkOk
    /\ stPc = "streaming"
    /\ stSinkOk' = FALSE
    /\ UNCHANGED <<stNow, stTick, stQueue, stSent, stOut, stPc, stNotify,
                   stSub, stClosed, notStream>>

\* a write to the sink, as the handler makes it: the result of Fprintf is
\* not looked at
SinkWrite(kind, msg) ==
    Append(stOut, [kind |-> kind, msg |-> msg, at |-> stNow, ok |-> stSinkOk])

\* case msg := <-ch: fmt.Fprintf(w, "data: %s\n\n", msg); flusher.Flush()
StWriteMsg ==
    /\ stPc = "streaming"
    /\ stQueue # <<>>
    /\ stOut' = SinkWrite("data", Head(stQueue))
    /\ stQueue' = Tail(stQueue)
    /\ UNCHANGED <<stNow, stTick, stSent, stPc, stNotify, stSinkOk, stSub,
                   stClosed, notStream>>

\* case <-ticker.C: fmt.Fprintf(w, ": ping\n\n"); flusher.Flush()
StWritePing ==
    /\ stPc = "streaming"
    /\ stTick
    /\ stTick' = FALSE
    /\ stOut' = SinkWrite("ping", 0)
    /\ UNCHANGED <<stNow, stQueue, stSent, stPc, stNotify, stSinkOk, stSub,
                   stClosed, notStream>>

\* case <-notify: return; the deferred calls run: ticker.Stop(),
\* broker.removeClient(ch): delete(b.clients, ch), close(ch); the channel
\* and what it held are released
StReturn ==
    /\ stPc = "streaming"
    /\ stNotify
    /\ stPc' = "ended"
    /\ stSub' = FALSE
    /\ stClosed' = TRUE
    /\ stQueue' = <<>>
    /\ stTick' = FALSE
    /\ UNCHANGED <<stNow, stSent, stOut, stNotify, stSinkOk, notStream>>

NextStream ==
    \/ StClock
    \/ StPublish
    \/ StClientGone
    \/ StSinkBreaks
    \/ StWriteMsg
    \/ StWritePing
    \/ StReturn

(***************************************************************************)
(* Recorder.Stop called by several goroutines, and Start's select          *)
(***************************************************************************)
Stoppers == 1..NStoppers

\* New: stopCh: make(chan struct{}); nobody has called Start or Stop yet
InitStop ==
    /\ stopCh = "open"
    /\ stopPc = [c \in Stoppers |-> "idle"]
    /\ stopN = [c \in Stoppers |-> 0]
    /\ stopCloses = 0
    /\ stopPanic = FALSE
    /\ startPos = "new"

\* Start is called and reaches  select { case <-stop: case <-r.stopCh: }
StartSelect ==
    /\ startPos = "new"
    /\ startPos' = "select"
    /\ UNCHANGED <<stopCh, stopPc, stopN, stopCloses, stopPanic, notStop>>

\* case <-r.stopCh: of Start
StartStopped ==
    /\ startPos = "select"
    /\ stopCh = "closed"
    /\ startPos' = "woken"
    /\ UNCHANGED <<stopCh, stopPc, stopN, stopCloses, stopPanic, notStop>>

\* Stop: select { case <-r.stopCh: default: ... }: the receive is ready
\* when the channel is closed, and Stop returns; otherwise the default
\* branch is taken
StopSelect(c) ==
    /\ stopPc[c] = "idle"
    /\ stopN[c] < MaxStopCalls
    /\ IF stopCh = "closed"
       THEN /\ stopN' = [stopN EXCEPT ![c] = @ + 1]
            /\ UNCHANGED stopPc
       ELSE /\ stopPc' = [stopPc EXCEPT ![c] = "default"]
            /\ UNCHANGED stopN
    /\ UNCHANGED <<stopCh, stopCloses, stopPanic, startPos, notStop>>

\* default: close(r.stopCh)  (closing a closed channel panics)
StopClose(c) ==
    /\ stopPc[c] = "default"
    /\ stopPc' = [stopPc EXCEPT ![c] = "idle"]
    /\ stopN' = [stopN EXCEPT ![c] = @ + 1]
    /\ stopCloses' = stopCloses + 1
    /\ stopCh' = "closed"
    /\ stopPanic' = (stopPanic \/ stopCh = "closed")
    /\ UNCHANGED <<startPos, notStop>>

NextStop ==
    \/ StartSelect
    \/ StartStopped
    \/ \E c \in Stoppers : StopSelect(c)
    \/ \E c \in Stoppers : StopClose(c)

(***************************************************************************)
(* One established CONNECT tunnel: the two transfer goroutines             *)
(***************************************************************************)
Socks == {"client", "server"}
Dirs == {"up", "down"}
\* go transfer(serverConn, clientConn): "up", from the client to the server
\* go transfer(clientConn, serverConn): "down"
Src(d) == IF d = "up" THEN "client" ELSE "server"
Dst(d) == IF d = "up" THEN "server" ELSE "client"

\* "HTTP/1.1 200 Connection established" written, both goroutines started
InitTunnel ==
    /\ tConn = [s \in Socks |-> "open"]
    /\ tPeer = [s \in Socks |-> "live"]
    /\ tPc = [d \in Dirs |-> "copy"]
    /\ tMoved = [d \in Dirs |-> 0]

\* the remote end of a socket ends the connection (EOF or reset)
TunPeerEnds(s) ==
    /\ tPeer[s] = "live"
    /\ tPeer' = [tPeer EXCEPT ![s] = "gone"]
    /\ UNCHANGED <<tConn, tPc, tMoved, notTunnel>>

\* io.Copy(dst, src) moves a byte
TunCopy(d) ==
    /\ tPc[d] = "copy"
    /\ tMoved[d] < MaxTunnelBytes
    /\ \A s \in Socks : tConn[s] = "open" /\ tPeer[s] = "live"
    /\ tMoved' = [tMoved EXCEPT ![d] = @ + 1]
    /\ UNCHANGED <<tConn, tPeer, tPc, notTunnel>>

\* io.Copy returns because the Read of src does: EOF or an error from the
\* remote end, or an error because src has been closed here
TunReadEnds(d) ==
    /\ tPc[d] = "copy"
    /\ tPeer[Src(d)] = "gone" \/ tConn[Src(d)] = "closed"
    /\ tPc' = [tPc EXCEPT ![d] = "ret"]
    /\ UNCHANGED <<tConn, tPeer, tMoved, notTunnel>>

\* io.Copy returns because a Write to dst fails: a byte was read from src
\* and dst is closed or its remote end is gone
TunWriteFails(d) ==
    /\ tPc[d] = "copy"
    /\ tPeer[Src(d)] = "live" /\ tConn[Src(d)] = "open"
    /\ tPeer[Dst(d)] = "gone" \/ tConn[Dst(d)] = "closed"
    /\ tPc' = [tPc EXCEPT ![d] = "ret"]
    /\ UNCHANGED <<tConn, tPeer, tMoved, notTunnel>>

\* the deferred calls run last-in first-out: src.Close()
TunCloseSrc(d) ==
    /\ tPc[d] = "ret"
    /\ tConn' = [tConn EXCEPT ![Src(d)] = "closed"]
    /\ tPc' = [tPc EXCEPT ![d] = "half"]
    /\ UNCHANGED <<tPeer, tMoved, notTunnel>>

\* then dst.Close(), and transfer returns
TunSkipCloseDst(d) ==      \* a transfer that closes its source only
    /\ tPc[d] = "half"
    /\ tPc' = [tPc EXCEPT ![d] = "done"]
    /\ UNCHANGED <<tConn, tPeer, tMoved, notTunnel>>
TunCloseDst(d) ==
    /\ tPc[d] = "half"
    /\ tConn' = [tConn EXCEPT ![Dst(d)] = "closed"]
    /\ tPc' = [tPc EXCEPT ![d] = "done"]
    /\ UNCHANGED <<tPeer, tMoved, notTunnel>>

NextTunnel ==
    \/ \E s \in Socks : TunPeerEnds(s)
    \/ \E d \in Dirs : TunCopy(d)
    \/ \E d \in Dirs : TunReadEnds(d)
    \/ \E d \in Dirs : TunWriteFails(d)
    \/ \E d \in Dirs : TunCloseSrc(d)
    \/ \E d \in Dirs : TunCloseDst(d)

\* a goroutine that can take a step of its own takes it: a Read that has
\* something to return returns, the deferred calls run
TunnelFair ==
    \A d \in Dirs : /\ WF_vars(TunReadEnds(d))
                    /\ WF_vars(TunCloseSrc(d))
                    /\ WF_vars(TunCloseDst(d))

(***************************************************************************)
(* Specifications.  Each one runs one component; the others stay as        *)
(* constructed.                                                            *)
(***************************************************************************)
BrokerIdle ==
    /\ clients = {} /\ published = 0
    /\ queue = [s \in Subs |-> <<>>]
    /\ delivered = [s \in Subs |-> <<>>]
    /\ hadEmpty = [s \in Subs |-> TRUE]
    /\ chState = [s \in Subs |-> "none"]
    /\ pcS = [s \in Subs |-> "idle"]
    /\ mu = "free" /\ bcast = NoBcast
    /\ subAt = [s \in Subs |-> 0]
    /\ panicked = FALSE /\ budget = 0

EngineIdle ==
    /\ cfg = [conc |-> 0, dur |-> 0, step |-> 0, reqs |-> <<>>, sink |-> "nil"]
    /\ now = 0
    /\ pcW = [i \in Workers |-> "off"]
    /\ idx = [i \in Workers |-> 0]
    /\ t0 = [i \in Workers |-> 0]
    /\ pend = [i \in Workers |-> NoResult]
    /\ activeUsers = 0 /\ results = <<>> /\ resClosed = TRUE
    /\ events = <<>> /\ stats = <<>>
    /\ pcMain = "returned" /\ quota = 0 /\ ghost = NoGhost
    /\ ret = NoSummary
    /\ cur = [i \in Workers |-> 0]
    /\ caller = "pumped"

ClassifyIdle == clsIn = [kind |-> "transport", code |-> 0] /\ clsOut = NoResult

PercentileIdle == pctL = <<>> /\ pctP = 1 /\ pctOut = 0 /\ pctDone = TRUE

ParseIdle ==
    /\ prsIn = [readable |-> FALSE, yamlOk |-> FALSE, scenarios |-> 0,
                duration |-> EmptyStr, rampUp |-> EmptyStr]
    /\ prsOut = PrsFail("cannot read YAML file")

\* no recorder: one that was stopped with nothing captured
RecorderIdle ==
    /\ pcStart = "stopped" /\ rtimer = 0
    /\ stopClosed = TRUE /\ sig = FALSE
    /\ hnd = [h \in Handlers |-> [kind |-> "none", pc |-> "idle"]]
    /\ reply = [h \in Handlers |-> NoReply]
    /\ records = <<>>
    /\ recEvents = <<>> /\ evClosed = TRUE
    /\ tun = FALSE
    /\ snapshot = <<>> /\ artifact = <<>> /\ files = 0
    /\ startRet = "nil" /\ rghost = NoRGhost

\* no artifact: an empty capture list
ArtifactIdle == wRecs = <<>> /\ wDoc = NoDoc /\ wRun = NoRun

\* no control surface: the serve command was not started
ControlIdle ==
    /\ isRunning = FALSE /\ ctlRec = 0
    /\ rcState = [r \in Recorders |-> "none"]
    /\ rcStop = [r \in Recorders |-> FALSE]
    /\ pump = [r \in Recorders |-> "none"]
    /\ calls = MaxCalls /\ lastReply = NoReplyYet /\ crashed = FALSE

\* no ingest: nothing arrives
IngestIdle ==
    build = "main" /\ inQueue = <<>> /\ handled = <<>> /\ bus = <<>>

\* no stream: the handler has returned
StreamIdle ==
    /\ stNow = 0 /\ stTick = FALSE /\ stQueue = <<>> /\ stSent = 0
    /\ stOut = <<>> /\ stPc = "ended" /\ stNotify = TRUE /\ stSinkOk = TRUE
    /\ stSub = FALSE /\ stClosed = TRUE

\* no Stop caller and no Start: every call has returned
StopIdle ==
    /\ stopCh = "closed" /\ stopPc = [c \in Stoppers |-> "idle"]
    /\ stopN = [c \in Stoppers |-> MaxStopCalls]
    /\ stopCloses = 1 /\ stopPanic = FALSE /\ startPos = "woken"

\* no tunnel: both transfers have returned
TunnelIdle ==
    /\ tConn = [s \in Socks |-> "closed"]
    /\ tPeer = [s \in Socks |-> "gone"]
    /\ tPc = [d \in Dirs |-> "done"]
    /\ tMoved = [d \in Dirs |-> 0]

\* the components a specification does not run
IdleBut(c) ==
    /\ IF c = "broker" THEN TRUE ELSE BrokerIdle
    /\ IF c = "engine" THEN TRUE ELSE EngineIdle
    /\ IF c = "classify" THEN TRUE ELSE ClassifyIdle
    /\ IF c = "percentile" THEN TRUE ELSE PercentileIdle
    /\ IF c = "parse" THEN TRUE ELSE ParseIdle
    /\ IF c = "recorder" THEN TRUE ELSE RecorderIdle
    /\ IF c = "artifact" THEN TRUE ELSE ArtifactIdle
    /\ IF c = "control" THEN TRUE ELSE ControlIdle
    /\ IF c = "ingest" THEN TRUE ELSE IngestIdle
    /\ IF c = "stream" THEN TRUE ELSE StreamIdle
    /\ IF c = "stop" THEN TRUE ELSE StopIdle
    /\ IF c = "tunnel" THEN TRUE ELSE TunnelIdle

InitBrokerRun == InitBroker /\ IdleBut("broker")
InitEngineRun == InitEngine /\ IdleBut("engine")
InitClassifyRun == InitClassify /\ IdleBut("classify")
InitPercentileRun == InitPercentile /\ IdleBut("percentile")
InitParseRun == InitParse /\ IdleBut("parse")
InitRecorderRun == InitRecorder /\ IdleBut("recorder")
InitArtifactRun == InitArtifact /\ IdleBut("artifact")
InitControlRun == InitControl /\ IdleBut("control")
InitIngestRun == InitIngest /\ IdleBut("ingest")
InitStreamRun == InitStream /\ IdleBut("stream")
InitStopRun == InitStop /\ IdleBut("stop")
InitTunnelRun == InitTunnel /\ IdleBut("tunnel")

NextClassify == ApplyClassify

SpecBroker == InitBrokerRun /\ [][NextBroker]_vars

SpecEngine == InitEngineRun /\ [][NextEngine]_vars

SpecClassify == InitClassifyRun /\ [][NextClassify]_vars

SpecPercentile == InitPercentileRun /\ [][NextPercentile]_vars

SpecParse == InitParseRun /\ [][NextParse]_vars

SpecRecorder == InitRecorderRun /\ [][NextRecorder]_vars

SpecArtifact == InitArtifactRun /\ [][NextArtifact]_vars

SpecControl == InitControlRun /\ [][NextControl]_vars

SpecIngest == InitIngestRun /\ [][NextIngest]_vars

SpecStream == InitStreamRun /\ [][NextStream]_vars

SpecStop == InitStopRun /\ [][NextStop]_vars

SpecTunnel == InitTunnelRun /\ [][NextTunnel]_vars /\ TunnelFair

(***************************************************************************)
(* Claims about the broker                                                 *)
(***************************************************************************)
Received(s) == delivered[s] \o queue[s]
Increasing(q) == \A i \in 1..(Len(q) - 1) : q[i] < q[i + 1]
\* messages broadcast while s was registered, the one in progress counted
\* once it has been offered to s
PublishedTo(s) == published - subAt[s] - (IF s \in bcast.todo THEN 1 ELSE 0)

\* C1: a broadcast never blocks on a subscriber.  While a broadcast holds the
\* mutex its next step (an offer to a remaining subscriber, or the unlock) is
\* always possible, whatever the subscribers' queues hold and whether or not
\* they read; and each offer either appends the message to a queue that holds
\* fewer than 10 messages or leaves a full queue as it is.
C1_PublishNeverBlocks ==
    [][ /\ (mu = "bcast" => ENABLED BroadcastStep)
        /\ \A s \in Subs :
             (s \in bcast.todo /\ s \in bcast'.done) =>
                 queue'[s] = IF Len(queue[s]) < 10
                             THEN Append(queue[s], bcast.msg)
                             ELSE queue[s] ]_vars
\* a broadcast has gone past a subscriber whose queue is full and that has
\* read nothing, and is still running
C1_Witness ==
    /\ mu = "bcast"
    /\ \E s \in bcast.done :
          /\ Len(queue[s]) = 10
          /\ delivered[s] = <<>>
          /\ bcast.msg \notin {queue[s][i] : i \in 1..Len(queue[s])}
    /\ bcast.todo # {}

\* C2: what a subscriber is delivered (and what still waits in its queue) is
\* a subsequence of the messages published while it was subscribed: in
\* publish order, each at most once, nothing that was not published.
C2_DeliveredSubsequence ==
    \A s \in Subs :
        /\ Increasing(Received(s))
        /\ \A i \in 1..Len(Received(s)) :
              /\ Received(s)[i] > subAt[s]
              /\ Received(s)[i] <= published
\* a late subscriber has been delivered messages while another subscriber
\* has been delivered a proper subsequence (it lost a message)
C2_Witness ==
    /\ mu = "free"
    /\ \E s, t \in clients :
          /\ subAt[s] > 0
          /\ Len(delivered[s]) >= 2
          /\ Len(delivered[t]) >= 2
          /\ Len(Received(t)) < published - subAt[t]

\* C3: every queue registered with the broker holds at most 10 messages.
C3_QueueBounded == \A s \in clients : Len(queue[s]) <= 10
\* a registered queue is full and a further message has been offered to it
C3_Witness ==
    \E s \in clients :
        /\ Len(queue[s]) = 10
        /\ Len(Received(s)) < PublishedTo(s)

\* C4: a subscriber that has read nothing has received at most 10 messages;
\* a subscriber whose queue was empty at every offer has received every
\* message published since it subscribed, whatever the other subscribers do.
C4_SlowDoesNotStarveOthers ==
    \A s \in clients :
        /\ delivered[s] = <<>> => Len(Received(s)) <= 10
        /\ hadEmpty[s] => Len(Received(s)) = PublishedTo(s)
\* a subscriber that never read holds 10 of the 11 messages published while
\* another one, which drained its queue each time, has been delivered all 11
C4_Witness ==
    /\ mu = "free"
    /\ \E s, t \in clients :
          /\ delivered[s] = <<>> /\ Len(queue[s]) = 10
          /\ published - subAt[s] > 10
          /\ hadEmpty[t] /\ subAt[t] = 0
          /\ Len(delivered[t]) = published /\ published > 10

(***************************************************************************)
(* Claims about the load engine                                            *)
(***************************************************************************)
Started == {i \in Workers : pcW[i] \notin {"off", "sleep"}}
Launched == {i \in Workers : pcW[i] # "off"}
Names == DOMAIN ghost.made
At(f, k) == IF k \in DOMAIN f THEN f[k] ELSE 0
CountIn(q, name) == Cardinality({k \in 1..Len(q) : q[k].name = name})
Unsent(name) ==
    Cardinality({i \in Workers : pcW[i] = "send" /\ pend[i].name = name})
BucketCount(name) == IF name \in DOMAIN stats THEN stats[name].count ELSE 0
BucketFailures(name) ==
    IF name \in DOMAIN stats THEN stats[name].failures ELSE 0
\* the result records that exist: waiting to be sent, or in the channel
LiveResults ==
    {pend[i] : i \in {w \in Workers : pcW[w] = "send"}}
        \cup {results[k] : k \in 1..Len(results)}
\* the request events in the sink's buffer
SinkResultEvents == {events[k] : k \in {j \in 1..Len(events) :
                                           events[j].method # "SYSTEM"}}

\* C5: a worker inside client.Do started that call while the time elapsed
\* since the start of the run was less than the duration.
C5_DurationBound == \A i \in Workers : pcW[i] = "do" => t0[i] < cfg.dur

\* C6: exactly cfg.conc workers are launched; activeUsers counts the workers
\* that are past their ramp sleep, so it never exceeds the concurrency and
\* equals it once every worker has started; a step changes it by a single
\* increment at most and never decreases it.
C6_ActiveUsersMonotone ==
    [][ /\ Cardinality(Launched) = cfg.conc
        /\ activeUsers' = Cardinality(Started')
        /\ activeUsers' <= cfg.conc
        /\ (Started' = Launched' => activeUsers' = cfg.conc)
        /\ activeUsers' \in {activeUsers, activeUsers + 1}
        /\ (activeUsers' = activeUsers + 1 <=>
               \E i \in Workers : pcW[i] = "sleep" /\ pcW'[i] # "sleep") ]_vars
\* with a ramp-up, the second worker has started after the first and every
\* worker launched is live
C6_Witness ==
    /\ cfg.conc = MaxConc
    /\ cfg.step > 0
    /\ Started = Launched
    /\ activeUsers = cfg.conc
    /\ now >= cfg.step * (cfg.conc - 1)

\* C7: every result a worker has produced is, for its name, either still
\* with the worker, in the results channel, or counted once in the bucket of
\* that name; when runInternal returns every result produced is counted.
C7_NoResultDropped ==
    /\ DOMAIN stats \subseteq Names
    /\ \A name \in Names :
          ghost.made[name] =
              BucketCount(name) + CountIn(results, name) + Unsent(name)
    /\ pcMain = "returned" =>
          \A name \in Names : BucketCount(name) = ghost.made[name]
\* the run has returned after a worker waited on the full results channel
\* and after the event of a result was dropped at the full sink; a
\* construction failure and a classified outcome are among the results
C7_Witness ==
    /\ pcMain = "returned"
    /\ ghost.blocked
    /\ ghost.dropped
    /\ \E n, m \in Names : n # m /\ n[1] = "G T" /\ BucketCount(m) >= 1

\* C8: every run terminates: as long as runInternal has not returned, some
\* step of the workers, the sentinel, the consumer or the clock is possible.
C8_RunTerminates == pcMain = "returned" \/ ENABLED NextEngine

\* C9: the event built from a result has a non-empty Err exactly when that
\* result increments the failure counter of its bucket; in every bucket the
\* failure counter is the number of consumed results with a non-empty err
\* (with a sink: the number of events built with a non-empty Err) and is at
\* most the count; a result or event has status 0 exactly when its request
\* received no response.
C9_EventIntegrity ==
    /\ \A r \in LiveResults :
          LET ev == ResultEvent(r, activeUsers) IN
          /\ ev.err # <<>> <=>
                AddStat(stats, r)[r.name].failures = BucketFailures(r.name) + 1
          /\ ev.err = <<>> <=>
                AddStat(stats, r)[r.name].failures = BucketFailures(r.name)
          /\ ev.status = 0 <=> ~r.resp
    /\ \A name \in Names :
          /\ BucketFailures(name) = At(ghost.resErr, name)
          /\ BucketFailures(name) <= BucketCount(name)
          /\ cfg.sink # "nil" => At(ghost.evErr, name) = BucketFailures(name)
    /\ DOMAIN ghost.resErr \subseteq Names
    /\ DOMAIN ghost.evErr \subseteq Names
    /\ \A e \in SinkResultEvents : e.status = 0 <=> ~e.resp
\* with a sink, a response with an error status has been counted as a
\* failure and a result whose request got no response is about to be
\* consumed
C9_Witness ==
    /\ cfg.sink # "nil"
    /\ \E name \in Names :
          /\ BucketFailures(name) = 1
          /\ At(ghost.evErr, name) = 1
    /\ \E r \in LiveResults : r.status = 0 /\ r.err # <<>>
    /\ \E name \in DOMAIN stats : stats[name].failures >= 1
    /\ results # <<>>

\* C10: the result built from the outcome of client.Do falls in exactly one
\* of three cases: a transport error gives status 0 and the transport
\* error; a response with status >= 400 gives that status and the status
\* error; any other response gives its status and no error.
C10_Classification ==
    clsOut # NoResult =>
        LET transport == clsIn.kind = "transport"
            errStatus == clsIn.kind = "resp" /\ clsIn.code >= 400
            ok == clsIn.kind = "resp" /\ clsIn.code < 400
        IN /\ Cardinality({c \in {"t", "e", "o"} :
                             \/ c = "t" /\ transport
                             \/ c = "e" /\ errStatus
                             \/ c = "o" /\ ok}) = 1
           /\ transport =>
                 clsOut.status = 0 /\ clsOut.err = <<"transport">>
           /\ errStatus =>
                 /\ clsOut.status = clsIn.code
                 /\ clsOut.err = <<"status", clsIn.code>>
           /\ ok => clsOut.status = clsIn.code /\ clsOut.err = <<>>
\* a response with status exactly 400 has been classified
C10_Witness ==
    /\ clsOut # NoResult
    /\ clsIn.kind = "resp"
    /\ clsIn.code = 400
    /\ clsOut.err # <<>>

(***************************************************************************)
(* Claims about the summary                                                *)
(***************************************************************************)
\* C11: for a sorted list of n >= 1 latencies and p in 1..100, percentile
\* returns the element at 0-based index min(n - 1, floor(n * p / 100)); for
\* the empty list it returns 0.
C11_PercentileLaw ==
    pctDone =>
        LET n == Len(pctL)
            f == (n * pctP) \div 100
        IN /\ n = 0 => pctOut = 0
           /\ n >= 1 => pctOut = pctL[(IF n - 1 < f THEN n - 1 ELSE f) + 1]
\* p = 100 on a strictly increasing list of three or more latencies: the
\* index n is clamped to n - 1 and the largest latency is returned
C11_Witness ==
    /\ pctDone
    /\ Len(pctL) >= 3
    /\ \A i \in 1..(Len(pctL) - 1) : pctL[i] < pctL[i + 1]
    /\ pctP = 100
    /\ pctOut = pctL[Len(pctL)]

RECURSIVE Sum(_, _)
Sum(f, S) ==
    IF S = {} THEN 0
    ELSE LET x == CHOOSE y \in S : TRUE IN f[x] + Sum(f, S \ {x})

\* C12: with concurrency 0 or duration 0 no worker issues a request or
\* builds a result, the statistics stay empty, and when runInternal returns
\* it has printed the single line "No requests executed." and returns nil;
\* with no sink or a consumed sink (and with no worker at all) the run is
\* never stuck before that return.
C12_NoRequestsExecuted ==
    (cfg.conc = 0 \/ cfg.dur = 0) =>
        /\ \A i \in Workers : pcW[i] \notin {"do", "send"}
        /\ ghost.made = <<>>
        /\ results = <<>>
        /\ stats = <<>>
        /\ pcMain = "returned" =>
              /\ ret.out = "No requests executed."
              /\ ret.rows = {} /\ ret.total = 0
              /\ ret.err = "nil"
        /\ (cfg.conc = 0 \/ cfg.sink # "unread") =>
              (pcMain = "returned" \/ ENABLED NextEngine)
\* duration 0 with every worker launched and a scenario with requests: the
\* workers have started and left, the run has returned
C12_Witness ==
    /\ cfg.dur = 0
    /\ cfg.conc = MaxConc
    /\ Len(cfg.reqs) > 0
    /\ activeUsers = MaxConc
    /\ pcMain = "returned"
    /\ ret.out = "No requests executed."

\* C13: a worker leaves its loop only at the loop condition, when the
\* duration is over; after sending a result, whatever its outcome, it goes
\* on to the next request of the scenario (or back to the loop condition
\* after the last); and runInternal returns nil with the summary of every
\* result, also when every request failed.
C13_ErrorsDoNotUnwind ==
    [][ /\ \A i \in Workers :
             (pcW[i] # "done" /\ pcW'[i] = "done") =>
                 (pcW[i] = "top" /\ now >= cfg.dur)
        /\ \A i \in Workers :
             (pcW[i] = "send" /\ (pcW'[i] # "send" \/ idx'[i] # idx[i])) =>
                 IF idx[i] < Len(cfg.reqs)
                 THEN idx'[i] = idx[i] + 1 /\ pcW'[i] \in {"do", "send"}
                 ELSE pcW'[i] = "top"
        /\ (pcMain # "returned" /\ pcMain' = "returned") =>
              /\ ret'.err = "nil"
              /\ stats # <<>> =>
                    /\ ret'.out = "metrics"
                    /\ ret'.total = Sum(ghost.made, Names)
                    /\ ret'.fails = Sum(ghost.resErr, DOMAIN ghost.resErr)
      ]_vars
\* the run has returned nil with a summary in which every request failed,
\* one of them at construction
C13_Witness ==
    /\ pcMain = "returned"
    /\ ret.err = "nil"
    /\ ret.out = "metrics"
    /\ ret.total >= 2
    /\ ret.fails = ret.total
    /\ \E n \in Names : n[1] = "G T"

(***************************************************************************)
(* Claims about scenario parsing                                           *)
(***************************************************************************)
\* a string that denotes a duration, and one that denotes a duration >= 0
IsDuration(s) ==
    s.num # "" /\ (s.unit = "s" \/ (s.unit = "" /\ s.num = "0"))
IsNonNegDuration(s) == IsDuration(s) /\ (s.sign = "-" => s.num = "0")

\* C14: parsing fails with an error, and nothing is launched, whenever the
\* file is unreadable or the duration string or a given ramp_up string does
\* not denote a non-negative duration.
C14_MalformedScenarioFails ==
    LET malformed ==
            \/ ~prsIn.readable
            \/ ~IsNonNegDuration(prsIn.duration)
            \/ (prsIn.rampUp # EmptyStr /\ ~IsNonNegDuration(prsIn.rampUp))
    IN (prsOut.done /\ malformed) => (prsOut.err # "nil" /\ ~prsOut.launch)

(***************************************************************************)
(* Claims about the recording proxy                                        *)
(***************************************************************************)
\* positions of the capture list that hold a record of handler h
RecordsOf(h) == {i \in 1..Len(records) : records[i].h = h}
\* the events handler h has passed to emitEvent
Offered(h) == rghost.offered[h]

\* C15: when forwarding a non-CONNECT request fails upstream, the client
\* gets 502 and an event with status 0 (carrying the error) has been
\* offered to the events channel for that request.
C15_UpstreamFailureEvent ==
    \A h \in Handlers :
        (hnd[h].kind = "http" /\ hnd[h].pc = "done"
            /\ reply[h].status = "502") =>
            \E i \in 1..Len(Offered(h)) : Offered(h)[i].status = 0

\* C16: a CONNECT whose dial failed: the client was sent 502 and its
\* connection closed, the capture list holds exactly one record of it, a
\* CONNECT, and no tunnel was started for it.
C16_ConnectDialFailure ==
    \A h \in Handlers :
        (hnd[h].kind = "connect" /\ reply[h].status = "502") =>
            /\ hnd[h].pc = "done"
            /\ reply[h].closed
            /\ Cardinality(RecordsOf(h)) = 1
            /\ \A i \in RecordsOf(h) : records[i].method = "CONNECT"
\* a CONNECT whose dial failed, among two requests captured
C16_Witness ==
    /\ Len(records) = 2
    /\ \E h \in Handlers :
          /\ hnd[h].kind = "connect"
          /\ hnd[h].pc = "done"
          /\ reply[h].status = "502"

\* a CONNECT handler whose tunnel was established
Tunnelled(h) ==
    /\ hnd[h].kind = "connect"
    /\ hnd[h].pc = "tunnel" \/ (hnd[h].pc = "done" /\ reply[h].status = "200")

\* C17: a step in which a tunnel copies bytes leaves the capture list and
\* the events channel as they were; a CONNECT has at most one record, with
\* method CONNECT and an empty body, and at most one event; once its tunnel
\* is established it has exactly one of each, so both exist before any byte
\* is carried.
C17_ConnectOpacity ==
    /\ [](\A h \in Handlers :
            hnd[h].kind = "connect" =>
                /\ Cardinality(RecordsOf(h)) <= 1
                /\ \A i \in RecordsOf(h) :
                      records[i].method = "CONNECT" /\ records[i].body = ""
                /\ Len(Offered(h)) <= 1
                /\ Tunnelled(h) =>
                      Cardinality(RecordsOf(h)) = 1 /\ Len(Offered(h)) = 1)
    /\ [](tun => \E h \in Handlers : Tunnelled(h))
    /\ [][tun' # tun =>
             UNCHANGED <<records, recEvents, evClosed, rghost, artifact>>]_vars
\* bytes went through a tunnel whose CONNECT is in the written artifact,
\* next to a plain request
C17_Witness ==
    /\ tun
    /\ pcStart = "stopped"
    /\ Len(artifact) = 2
    /\ \E h \in Handlers : Tunnelled(h) /\ hnd[h].pc = "done"
    /\ \E h \in Handlers : hnd[h].kind = "http"

\* C18: a handler at emitEvent can always take its step, whatever the
\* events channel holds; a handler whose event was dropped at a full
\* channel has passed emitEvent, its record is in the capture list, and it
\* is in the artifact once Start has written one.
C18_EmitNonBlocking ==
    \A h \in Handlers :
        /\ hnd[h].pc = "emit" => ENABLED EmitEvent(h)
        /\ h \in rghost.dropped =>
              /\ hnd[h].pc \notin {"idle", "record", "forward", "emit"}
              /\ RecordsOf(h) # {}
              /\ (pcStart = "stopped" /\ startRet = "nil") =>
                    \E i \in 1..Len(artifact) : artifact[i].h = h
\* an event was dropped at a full channel that nobody had read, the
\* handler went on to the end, and the artifact with its record is written
C18_Witness ==
    \E h \in Handlers :
        /\ h \in rghost.dropped
        /\ Len(recEvents) = RecEventsCap
        /\ hnd[h].pc = "done"
        /\ pcStart = "stopped"
        /\ \E i \in 1..Len(artifact) : artifact[i].h = h

\* the position of Start in its sequence of steps
Phase(p) ==
    CASE p = "listening" -> 0
      [] p = "drain" -> 1
      [] p = "shutdown" -> 2
      [] p = "close" -> 3
      [] p = "snapshot" -> 4
      [] p = "write" -> 5
      [] p = "stopped" -> 6

\* C19: Start leaves Listening only after Stop or an interrupt; from there
\* it moves one phase at a time and never back: the drain window lasts
\* DrainWindow seconds, then Shutdown, left when no connection is being
\* served or ShutdownDeadline seconds have passed, then the events channel
\* is closed, and only after that the capture list is copied and the
\* artifact written.
C19_LifecycleOrder ==
    /\ [][pcStart' # pcStart =>
             /\ Phase(pcStart') = Phase(pcStart) + 1
             /\ pcStart = "listening" => (stopClosed \/ sig)
             /\ pcStart = "drain" => rtimer = DrainWindow
             /\ pcStart = "shutdown" =>
                   \/ rtimer = ShutdownDeadline
                   \/ \A h \in Handlers : ~Serving(h)]_vars
    /\ [](evClosed <=> Phase(pcStart) >= 4)
    /\ [](Phase(pcStart) <= 4 => (snapshot = <<>> /\ files = 0))
    /\ [](Phase(pcStart) <= 5 => (artifact = <<>> /\ startRet = ""))
    /\ [](pcStart = "drain" => rtimer <= DrainWindow)
    /\ [](pcStart = "shutdown" => rtimer <= ShutdownDeadline)
\* Start has gone through every phase after a Stop, with no interrupt, and
\* Shutdown ran into its deadline with a request still being served, which
\* was captured
C19_Witness ==
    /\ pcStart = "stopped"
    /\ stopClosed /\ ~sig
    /\ files = 1
    /\ \E h \in Handlers : Serving(h) /\ RecordsOf(h) # {}

EqualFold(a, b) ==
    /\ Len(a) = Len(b)
    /\ \A i \in 1..Len(a) : LowerChar(a[i]) = LowerChar(b[i])

\* C21: in the document written, the headers of every request have no
\* name equal to "cookie" whatever the case of its letters, and have every
\* other header of the record, with its value.
C21_CookieStripping ==
    wDoc # NoDoc =>
        \A i \in 1..Len(wRecs) :
            LET in == wRecs[i].headers
                out == wDoc.requests[i].headers
            IN /\ \A k \in DOMAIN out : ~EqualFold(k, KcookieLower)
               /\ \A k \in DOMAIN in :
                     ~EqualFold(k, KcookieLower) =>
                         (k \in DOMAIN out /\ out[k] = in[k])
               /\ DOMAIN out \subseteq DOMAIN in
\* a record with Cookie, cookie, X-Cookie and Accept was written: the
\* last two are in the document
C21_Witness ==
    /\ wDoc # NoDoc
    /\ Len(wRecs) = MaxRecs
    /\ \E i \in 1..Len(wRecs) :
          /\ DOMAIN wRecs[i].headers = HeaderKeys
          /\ DOMAIN wDoc.requests[i].headers = {KXCookie, KAccept}
          /\ wDoc.requests[i].headers[KAccept] = "b"

\* C28: the engine run on the document written for a non-empty capture
\* list reads it without error and has the recorded requests to issue, in
\* order.
C28_ArtifactReplayable ==
    wRun.done =>
        /\ wRun.err = "nil"
        /\ Len(wRun.requests) = Len(wRecs)
        /\ \A i \in 1..Len(wRecs) :
              /\ wRun.requests[i].method = wRecs[i].method
              /\ wRun.requests[i].host = wRecs[i].host
              /\ wRun.requests[i].path = wRecs[i].rest
              /\ wRun.requests[i].body = wRecs[i].body

(***************************************************************************)
(* Claims about the control surface                                        *)
(***************************************************************************)
\* the recorders between the beginning of Start and its return
Live == {r \in Recorders : rcState[r] \in LivePhases}

C24_AtMostOneLive == Cardinality(Live) <= 1

(***************************************************************************)
(* Claims about the orchestrator's ingest                                  *)
(***************************************************************************)
\* an event that must reach the bus: it decoded and is not system-class
Publishable(ev) == ev.ok /\ ev.method \notin {"", "SYSTEM", "INFO"}

\* C25: the messages broadcast are, in order and once each, the
\* serializations of the events received that decoded and are not
\* system-class: no event with method "", "SYSTEM" or "INFO" is broadcast,
\* whether it came through /api/report or from the pump of a run.
C25_SystemEventsFiltered ==
    LET pub == SelectSeq(handled, Publishable)
    IN bus = [i \in 1..Len(pub) |-> Marshal(pub[i])]

(***************************************************************************)
(* Claims about a subscriber stream                                        *)
(***************************************************************************)
\* C26: a heartbeat is written only when no message was written to the
\* subscriber during the HeartbeatPeriod seconds before it.
C26_HeartbeatOnlyWhenQuiet ==
    \A i \in 1..Len(stOut) :
        stOut[i].kind = "ping" =>
            \A j \in 1..(i - 1) :
                stOut[j].kind = "data" =>
                    stOut[i].at - stOut[j].at >= HeartbeatPeriod

\* C27: a stream that has ended did so after its cancel signal or after a
\* rejected write, and is then out of the subscriber set with its queue
\* closed and released; a write the sink rejected is the last write the
\* handler makes, message or heartbeat.
C27_StreamEnds ==
    /\ stPc = "ended" =>
          /\ stNotify \/ \E i \in 1..Len(stOut) : ~stOut[i].ok
          /\ ~stSub /\ stClosed /\ stQueue = <<>>
    /\ \A i \in 1..(Len(stOut) - 1) : stOut[i].ok

(***************************************************************************)
(* Claims about the engine's workers and its results channel               *)
(***************************************************************************)
\* C29: a worker waits only in its ramp sleep, in client.Do and at the send
\* on the results channel; a worker that is emitting its RAMP_PROGRESS
\* event is never kept waiting by the events sink.
C29_WorkerBlockPoints ==
    \A i \in Workers : pcW[i] = "ramp" => ENABLED WorkerRamp(i)

\* C30: the results channel goes from open to closed once and never back,
\* in a step taken when every worker has finished; once it is closed
\* nothing is added to it; and runInternal leaves its consumer loop only
\* with the channel closed and empty, no result left with a worker, and as
\* many results counted as the workers made.
Finished == \A i \in Workers : pcW[i] \in {"off", "done"}
C30_ResultsClosedOnce ==
    /\ [](resClosed => Finished)
    /\ [](pcMain = "returned" =>
            (/\ resClosed
             /\ results = <<>>
             /\ \A i \in Workers : pend[i] = NoResult
             /\ ret.total = Sum(ghost.made, Names)))
    /\ [][ /\ resClosed => resClosed'
           /\ (~resClosed /\ resClosed') => Finished
           /\ resClosed => (Len(results') <= Len(results))
           /\ (Len(results') > Len(results)) => ~resClosed'
         ]_vars
\* the run has returned after two workers sent results, the channel closed
C30_Witness ==
    /\ pcMain = "returned"
    /\ resClosed
    /\ cfg.conc = 2
    /\ ret.total >= 2
    /\ \A i \in 1..2 : pcW[i] = "done"

(***************************************************************************)
(* Claims about the proxy's capture list and its shutdown                  *)
(***************************************************************************)
\* the handlers that have passed the append step
PastAppend ==
    {h \in Handlers : hnd[h].kind # "none" /\ hnd[h].pc \notin {"idle", "record"}}

\* C31: a non-CONNECT request has no record before its append step and
\* exactly one from then on, so that the record is there when the request
\* is forwarded and after forwarding has succeeded or failed; the capture
\* list is as long as the number of requests that have passed the append.
C31_CaptureOnce ==
    /\ \A h \in Handlers :
          hnd[h].kind = "http" =>
              Cardinality(RecordsOf(h)) = IF h \in PastAppend THEN 1 ELSE 0
    /\ Len(records) = Cardinality(PastAppend)
\* two requests were captured by concurrent handlers; one was forwarded,
\* the other failed upstream
C31_Witness ==
    /\ \A h \in 1..2 : hnd[h].kind = "http" /\ hnd[h].pc = "done"
    /\ reply[1].status = "502"
    /\ reply[2].status = "200"
    /\ Len(records) = 2
    /\ records[1].h = 2

\* C33: the step in which writing the artifact fails (there was something
\* to write and no file came of it) makes Start return the wrapped error,
\* with the events channel already closed, nothing saved and no "Session
\* saved" line logged.
C33_WriteFailure ==
    [][ (/\ pcStart = "write" /\ pcStart' = "stopped"
         /\ snapshot # <<>> /\ files' = files)
        => (/\ startRet' = "error"
            /\ evClosed /\ evClosed'
            /\ artifact' = <<>>
            /\ ~SavedLogged') ]_vars
\* Start has returned the error after a capture of one request
C33_Witness ==
    /\ pcStart = "stopped"
    /\ startRet = "error"
    /\ evClosed
    /\ Len(snapshot) >= 1
    /\ files = 0

\* C36: no handler executes emitEvent on the events channel once Start has
\* closed it.
C36_NoEmitAfterClose == ~rghost.panicked

(***************************************************************************)
(* Claims about the broker's queues                                        *)
(***************************************************************************)
\* C35: no broadcast sends on a closed subscriber channel: a channel in
\* the subscriber set is open, and so is every channel a broadcast that
\* holds the mutex has still to offer to.
C35_NoSendOnClosed ==
    /\ ~panicked
    /\ \A s \in clients : chState[s] = "open"
    /\ mu = "bcast" => \A s \in bcast.todo : chState[s] = "open"
\* a broadcast holds the mutex and has offered to one subscriber while the
\* other has been removed from the set and closed
C35_Witness ==
    /\ mu = "bcast"
    /\ bcast.done # {}
    /\ \E t \in Subs : chState[t] = "closed" /\ pcS[t] = "gone"

\* the broadcasts that have made their offer to subscriber s
OfferedTo(s) ==
    IF mu = "bcast" /\ s \in bcast.todo THEN published - 1 ELSE published
\* the smaller of two numbers
Min(a, b) == IF a <= b THEN a ELSE b

\* C40: a subscriber that has read nothing holds the messages published
\* since it subscribed, in publish order, up to the first QueueCap of them:
\* an offer to its full queue leaves the queue as it was.
C40_DropNewest ==
    \A s \in Subs :
        (pcS[s] = "streaming" /\ delivered[s] = <<>>) =>
            queue[s] = Range(subAt[s] + 1,
                             Min(OfferedTo(s), subAt[s] + QueueCap))
\* eleven messages were published to a subscriber that read none of them
C40_Witness ==
    \E s \in Subs :
        /\ pcS[s] = "streaming"
        /\ delivered[s] = <<>>
        /\ OfferedTo(s) - subAt[s] > QueueCap
        /\ queue[s] = Range(subAt[s] + 1, subAt[s] + QueueCap)

(***************************************************************************)
(* Claims about the isRunning flag                                         *)
(***************************************************************************)
\* C38: isRunning goes from true to false only in a stop-record call or
\* when the Start of the recorder created last has returned; the completion
\* of an earlier recorder leaves it alone.
C38_RunningHeld ==
    [][ (isRunning /\ ~isRunning') =>
           \/ calls' = calls + 1 /\ lastReply'.op = "stop"
           \/ /\ ctlRec # 0
              /\ rcState[ctlRec] = "returned"
              /\ rcState'[ctlRec] = "finished" ]_vars

(***************************************************************************)
(* Claims about the run's edges                                            *)
(***************************************************************************)
\* C34: with duration 0 and concurrency > 0 the counter of active users
\* stays 0, no worker gets to emit RAMP_PROGRESS and none is in the sink.
C34_NoLaunchAtZeroDuration ==
    (cfg.dur = 0 /\ cfg.conc > 0) =>
        /\ activeUsers = 0
        /\ \A i \in Workers : pcW[i] # "ramp"
        /\ \A k \in 1..Len(events) : events[k].name # "RAMP_PROGRESS"

\* a step in which a worker completes its RAMP_PROGRESS send, or the
\* consumer takes a result and makes its offer to the sink
SinkSendStep ==
    \/ \E i \in Workers : pcW[i] = "ramp" /\ pcW'[i] # "ramp"
    \/ Len(results') < Len(results)

\* C39: every send on the events sink is made before RunWithEvents
\* returns: once it has returned every worker has finished and the results
\* are consumed, so the caller closes a sink nobody sends on; and the
\* caller's pump, on the closed sink, always has a step to take until it
\* has ended, with the sink empty.
C39_NoSendAfterReturn ==
    /\ [](pcMain = "returned" =>
            (Finished /\ results = <<>> /\ resClosed))
    /\ [](caller # "waiting" => pcMain = "returned")
    /\ [](caller = "closed" => ENABLED (PumpDrain \/ PumpExit))
    /\ [](caller = "pumped" => events = <<>>)
    /\ [][ SinkSendStep => (pcMain = "consume" /\ caller = "waiting") ]_vars
\* a worker sent RAMP_PROGRESS to a sink that was not being read, the
\* offer of a request event found it full, the run returned, the caller
\* closed the sink and its pump has ended
C39_Witness ==
    /\ cfg.sink = "unread"
    /\ cfg.conc >= 1
    /\ ret.total >= 1
    /\ ghost.dropped
    /\ caller = "pumped"

(***************************************************************************)
(* Claims about Stop and about the tunnel's sockets                        *)
(***************************************************************************)
\* C37: whatever the number of Stop calls and their interleaving, stopCh
\* is closed by at most one of them and no call closes the closed channel.
C37_StopClosesOnce == stopCloses <= 1 /\ ~stopPanic

\* C32: once either transfer's copy has ended, both sockets get closed and
\* both transfers return.
C32_TunnelClosesBoth ==
    (\E d \in Dirs : tPc[d] # "copy")
        ~> (/\ \A s \in Socks : tConn[s] = "closed"
            /\ \A d \in Dirs : tPc[d] = "done")
\* the client ended the connection while the server was silent: both
\* sockets are closed and both transfers have returned, the one from the
\* server without its remote end having ended
C32_Witness ==
    /\ tPeer["client"] = "gone"
    /\ tPeer["server"] = "live"
    /\ tMoved["up"] >= 1
    /\ \A s \in Socks : tConn[s] = "closed"
    /\ \A d \in Dirs : tPc[d] = "done"

====
